---- MODULE Spec2Model ----
(***************************************************************************)
(* A model of the SOFA data pipeline: the KEV detector and enricher, the   *)
(* HTTP page cache of the security-page fetcher, the pipeline              *)
(* orchestrators and the feed builders.  Each part has its own             *)
(* specification over the shared variables; the parts it does not drive    *)
(* stay at their initial value.                                            *)
(***************************************************************************)
EXTENDS Integers, Sequences, FiniteSets, TLC

VARIABLES
    \* --- KEV detector / enricher (smart_kev_detector.py, enrich_with_smart_kev.py)
    cisa_kevs,        \* SmartKEVDetector.cisa_kevs: set of CVE ids
    apple_exploited,  \* SmartKEVDetector.apple_exploited: dict cve -> ExploitationInfo
    kev_out,          \* the value returned by the last detector/enricher call
    \* --- HTTP page cache (fetch_security_pages.py), the entry of one URL
    metaFile,         \* cache/urls/<sha1(url)>.json
    rawFile,          \* cache/raw/<sha1(url)>.html
    parsedFile,       \* cache/parsed/<sha1(url)>.json
    clock,            \* wall clock, in seconds
    call,             \* per fetching process: the position and locals of its call
    \* --- orchestrators
    stage_run,        \* one run of pipeline/run_sofa_pipeline.py
    cli_run,          \* one run of scripts/sofa_pipeline.py
    \* --- feed builders (build_complete_feeds.py, build_v2_feeds_enhanced.py, ...)
    feed_out,         \* the value returned by the last feed-builder call
    \* --- GDMF client (fetch_gdmf.py)
    gdmfCache,        \* data/cache/gdmf_cached.json: its content and mtime
    gdmfClock,        \* wall clock, in hours
    gdmf_out,         \* the outcome of the last GDMFClient.fetch call
    \* --- feed emission (build_all_feeds, build_all_v2_enhanced_feeds)
    emitInput,        \* the scraped releases and the GDMF manifest on disk
    outFiles,         \* the emitted files: content and number of writes
    emitClock,        \* wall clock of the emitting host
    \* --- beta history archive (apple_os_releases_scraper.py, merge_beta_history.py)
    betaHistory       \* v1/apple-beta-os-history.json: its items, and the items last offered

kev_vars == <<cisa_kevs, apple_exploited, kev_out>>

cache_vars == <<metaFile, rawFile, parsedFile, clock, call>>

pipe_vars == <<stage_run, cli_run>>

feed_vars == <<feed_out>>

gdmf_vars == <<gdmfCache, gdmfClock, gdmf_out>>

emit_vars == <<emitInput, outFiles, emitClock>>

hist_vars == <<betaHistory>>

vars == <<cisa_kevs, apple_exploited, kev_out, metaFile, rawFile, parsedFile, clock, call,
          stage_run, cli_run, feed_out, gdmfCache, gdmfClock, gdmf_out,
          emitInput, outFiles, emitClock, betaHistory>>

(***************************************************************************)
(* Helpers on sequences                                                    *)
(***************************************************************************)
SeqToSet(s) == {s[i] : i \in DOMAIN s}

InSeq(x, s) == \E i \in DOMAIN s : s[i] = x

(***************************************************************************)
(* KEV detector                                                            *)
(***************************************************************************)
CVEs == {"CVE-2024-44308", "CVE-2025-24201"}

Platforms == {"macOS", "iOS"}

\* ExploitationSource values
LocalSources == {"apple_direct", "apple_targeted", "apple_version_specific", "cisa_kev"}

\* release["cves"] lists used as inputs of the enricher
ReleaseCveLists ==
    { <<"CVE-2024-44308">>, <<"CVE-2025-24201">>,
      <<"CVE-2024-44308", "CVE-2025-24201">> }

NoNotes == [kind |-> "none", platforms |-> {}]

\* APPLE_PATTERNS, in declaration order: (regex, source, confidence, metadata)
APPLE_PATTERNS ==
    << [source |-> "apple_direct", confidence |-> "confirmed", is_exploited |-> TRUE,
        is_targeted_attack |-> FALSE, is_physical_attack |-> FALSE,
        extract_version |-> FALSE, notes |-> NoNotes],
       [source |-> "apple_direct", confidence |-> "confirmed", is_exploited |-> TRUE,
        is_targeted_attack |-> FALSE, is_physical_attack |-> FALSE,
        extract_version |-> FALSE, notes |-> NoNotes],
       [source |-> "apple_targeted", confidence |-> "confirmed", is_exploited |-> TRUE,
        is_targeted_attack |-> TRUE, is_physical_attack |-> FALSE,
        extract_version |-> FALSE, notes |-> NoNotes],
       [source |-> "apple_version_specific", confidence |-> "confirmed", is_exploited |-> TRUE,
        is_targeted_attack |-> FALSE, is_physical_attack |-> FALSE,
        extract_version |-> TRUE, notes |-> NoNotes],
       [source |-> "apple_direct", confidence |-> "confirmed", is_exploited |-> TRUE,
        is_targeted_attack |-> FALSE, is_physical_attack |-> TRUE,
        extract_version |-> FALSE, notes |-> NoNotes],
       [source |-> "apple_direct", confidence |-> "high", is_exploited |-> TRUE,
        is_targeted_attack |-> FALSE, is_physical_attack |-> FALSE,
        extract_version |-> FALSE,
        notes |-> [kind |-> "supplementary_fix", platforms |-> {}]] >>

\* An Apple impact text, abstracted to what the detector reads of it: the set of
\* APPLE_PATTERNS indices whose regex matches, and the OS named by the
\* version-specific pattern.  Pattern 5 contains pattern 1's sentence, so a text
\* matching 5 matches 1.
AppleTexts ==
    { [matches |-> m, os |-> o] :
        m \in { {}, {1}, {2}, {3}, {4}, {6}, {1, 3}, {1, 5}, {3, 6}, {1, 4},
                {1, 3, 5} },
        o \in {"iOS"} }

\* ExploitationInfo(...) as constructed at the head of detect_apple_exploitation
\* and of get_exploitation_status
EmptyInfo(cve, platform) ==
    [cve_id |-> cve, is_exploited |-> FALSE, confidence |-> "low",
     sources |-> <<>>, affected_platforms |-> {platform},
     targeted_versions |-> {}, is_targeted_attack |-> FALSE,
     is_physical_attack |-> FALSE, notes |-> NoNotes]

\* The body of the loop of detect_apple_exploitation for one matching pattern
ApplyPattern(info, i, text) ==
    LET p == APPLE_PATTERNS[i] IN
    [info EXCEPT
        !.is_exploited = p.is_exploited,
        !.confidence = p.confidence,
        !.sources = Append(@, p.source),
        !.targeted_versions = IF p.extract_version THEN {text.os} ELSE @,
        !.affected_platforms = IF p.extract_version THEN @ \cup {text.os} ELSE @,
        !.is_targeted_attack = p.is_targeted_attack,
        !.is_physical_attack = p.is_physical_attack,
        !.notes = IF p.notes.kind # "none" THEN p.notes ELSE @]

RECURSIVE DetectLoop(_, _, _)
DetectLoop(info, i, text) ==
    IF i > Len(APPLE_PATTERNS) THEN info
    ELSE DetectLoop(IF i \in text.matches THEN ApplyPattern(info, i, text) ELSE info,
                    i + 1, text)

\* detect_apple_exploitation: the info when exploitation was detected; found = FALSE
\* stands for the None it returns otherwise
detect_apple_exploitation(cve, text, platform) ==
    LET info == DetectLoop(EmptyInfo(cve, platform), 1, text) IN
    [found |-> info.is_exploited, info |-> info]

\* A check that never finds the CVE exploited elsewhere
check_cross_platform_exploitation_Never(known, cve, current_platform) ==
    [found |-> FALSE, info |-> EmptyInfo(cve, current_platform)]

\* check_cross_platform_exploitation: found = FALSE stands for None
check_cross_platform_exploitation(known, cve, current_platform) ==
    IF cve \in DOMAIN known /\ current_platform \notin known[cve].affected_platforms
    THEN [found |-> TRUE,
          info |-> [EmptyInfo(cve, current_platform) EXCEPT
                      !.is_exploited = FALSE,
                      !.confidence = "medium",
                      !.sources = <<"cross_platform">>,
                      !.notes = [kind |-> "known_exploited_on",
                                 platforms |-> known[cve].affected_platforms]]]
    ELSE [found |-> FALSE, info |-> EmptyInfo(cve, current_platform)]

\* The CISA KEV step of get_exploitation_status
ApplyCisa(info, kevs) ==
    IF info.cve_id \in kevs
    THEN [info EXCEPT
            !.is_exploited = TRUE,
            !.sources = IF InSeq("cisa_kev", @) THEN @ ELSE Append(@, "cisa_kev"),
            !.confidence = IF @ # "confirmed" THEN "high" ELSE @]
    ELSE info

\* get_exploitation_status.  hasText = FALSE is apple_text = None (or empty).
\* Returns the ExploitationInfo and the detector's apple_exploited afterwards:
\* the stored entry is the very object the CISA step then updates.
get_exploitation_status(known, kevs, cve, hasText, text, platform) ==
    LET det    == detect_apple_exploitation(cve, text, platform)
        local  == hasText /\ text.matches # {} /\ det.found
        base   == IF local THEN det.info ELSE EmptyInfo(cve, platform)
        info   == ApplyCisa(base, kevs)
        known2 == IF local
                  THEN [c \in DOMAIN known \cup {cve} |->
                          IF c = cve THEN info ELSE known[c]]
                  ELSE known
        cross  == check_cross_platform_exploitation(known2, cve, platform)
    IN  [info  |-> IF ~info.is_exploited /\ cross.found THEN cross.info ELSE info,
         known |-> known2]

\* A Categorize step that also lists the cross-platform warnings as exploited
IsActivelyExploited_MergesWarnings(info) ==
    info.is_exploited \/ InSeq("cross_platform", info.sources)

\* The "Categorize" step of SmartKEVEnricher.enrich_release
IsActivelyExploited(info) == info.is_exploited

IsCisaKev(info) == InSeq("cisa_kev", info.sources)

IsCrossPlatformWarning(info) == InSeq("cross_platform", info.sources)

SelectCves(cves, details, Keep(_)) ==
    SelectSeq(cves, LAMBDA c : Keep(details[c]))

\* SmartKEVEnricher.enrich_release (apple_text is always None there)
enrich_release(known, kevs, cves, platform) ==
    LET details == [c \in SeqToSet(cves) |->
                      get_exploitation_status(known, kevs, c, FALSE,
                          [matches |-> {}, os |-> "iOS"], platform).info]
        warned  == SelectCves(cves, details, IsCrossPlatformWarning)
    IN  [op |-> "enrich_release", platform |-> platform, cves |-> cves,
         actively_exploited_cves |-> SelectCves(cves, details, IsActivelyExploited),
         cisa_kevs |-> SelectCves(cves, details, IsCisaKev),
         cross_platform_exploitation_warnings |->
             [i \in DOMAIN warned |-> [cve |-> warned[i], note |-> details[warned[i]].notes]],
         exploitation_details |-> details]

\* KEVPolicy.should_mark_as_exploited
should_mark_as_exploited(platform, cve_platforms, is_cisa_kev) ==
    IF platform \in cve_platforms THEN TRUE
    ELSE IF is_cisa_kev /\ platform \in cve_platforms THEN TRUE
    ELSE FALSE

\* KEVPolicy.get_exploitation_level
get_exploitation_level(platform, cve_platforms, is_cisa_kev, categories) ==
    IF should_mark_as_exploited(platform, cve_platforms, is_cisa_kev)
    THEN IF "TARGETED_ATTACK" \in categories THEN "targeted_attack"
         ELSE IF "PHYSICAL_ATTACK_EXPLOITED" \in categories THEN "physical_attack"
         ELSE "actively_exploited"
    ELSE IF cve_platforms # {} /\ platform \notin cve_platforms THEN "exploitation_warning"
    ELSE "no_exploitation"

\* Inputs of FeedEnrichmentPolicy.enrich_release_entry: exploitation_data[cve]
PolicyCategories == { {}, {"TARGETED_ATTACK"}, {"PHYSICAL_ATTACK_EXPLOITED"} }

PolicyData ==
    [platforms : SUBSET Platforms, in_cisa_kev : BOOLEAN, categories : PolicyCategories]

\* FeedEnrichmentPolicy.enrich_release_entry; data is exploitation_data restricted
\* to the CVEs it has an entry for
enrich_release_entry(cves, platform, data) ==
    LET level(c) == get_exploitation_level(platform, data[c].platforms,
                                           data[c].in_cisa_kev, data[c].categories)
        known == SelectSeq(cves, LAMBDA c : c \in DOMAIN data)
        warned == SelectSeq(known, LAMBDA c : level(c) = "exploitation_warning")
    IN  [op |-> "enrich_release_entry", platform |-> platform, cves |-> cves, data |-> data,
         actively_exploited_cves |->
             SelectSeq(known, LAMBDA c : level(c) \in
                 {"actively_exploited", "targeted_attack", "physical_attack"}),
         exploitation_warnings |->
             [i \in DOMAIN warned |->
                 [cve |-> warned[i],
                  note |-> [kind |-> "known_exploited_on",
                            platforms |-> data[warned[i]].platforms \ {platform}]]],
         targeted_attack_cves |-> SelectSeq(known, LAMBDA c : level(c) = "targeted_attack"),
         physical_attack_cves |-> SelectSeq(known, LAMBDA c : level(c) = "physical_attack")]

KevInit ==
    /\ cisa_kevs \in SUBSET CVEs
    /\ apple_exploited = << >>
    /\ kev_out = [op |-> "none"]

\* SmartKEVEnricher.load_apple_patterns, one cached entry with "exploited" set
LoadApplePattern(cve, platforms) ==
    /\ apple_exploited' =
         [c \in DOMAIN apple_exploited \cup {cve} |->
            IF c = cve
            THEN [EmptyInfo(cve, "unknown") EXCEPT
                    !.is_exploited = TRUE, !.confidence = "confirmed",
                    !.sources = <<"apple_direct">>,
                    !.affected_platforms = platforms,
                    !.notes = [kind |-> "categories", platforms |-> {}]]
            ELSE apple_exploited[c]]
    /\ kev_out' = [op |-> "load_apple_patterns", cve |-> cve]
    /\ UNCHANGED cisa_kevs
    /\ UNCHANGED <<cache_vars, pipe_vars, feed_vars, gdmf_vars, emit_vars, hist_vars>>

\* get_exploitation_status called with the Apple text of a page
\* (SmartKEVDetector.analyze_security_release, main)
AnalyzeText(cve, text, platform) ==
    LET r == get_exploitation_status(apple_exploited, cisa_kevs, cve, TRUE, text, platform) IN
    /\ apple_exploited' = r.known
    /\ kev_out' = [op |-> "get_exploitation_status", cve |-> cve, platform |-> platform,
                   text |-> text, info |-> r.info]
    /\ UNCHANGED cisa_kevs
    /\ UNCHANGED <<cache_vars, pipe_vars, feed_vars, gdmf_vars, emit_vars, hist_vars>>

\* SmartKEVEnricher.enrich_release on one release of one platform file
EnrichRelease(cves, platform) ==
    /\ kev_out' = enrich_release(apple_exploited, cisa_kevs, cves, platform)
    /\ UNCHANGED <<cisa_kevs, apple_exploited>>
    /\ UNCHANGED <<cache_vars, pipe_vars, feed_vars, gdmf_vars, emit_vars, hist_vars>>

\* FeedEnrichmentPolicy.enrich_release_entry on a release listing one CVE.  The
\* policy module is stateless and shares nothing with the detector, so it is
\* exercised from the detector's initial state only.
PolicyEnrich(cve, platform, known, d) ==
    /\ apple_exploited = << >>
    /\ kev_out' = enrich_release_entry(<<cve>>, platform,
                      IF known THEN [c \in {cve} |-> d] ELSE << >>)
    /\ UNCHANGED <<cisa_kevs, apple_exploited>>
    /\ UNCHANGED <<cache_vars, pipe_vars, feed_vars, gdmf_vars, emit_vars, hist_vars>>

KevStep ==
    \/ \E c \in CVEs, p \in Platforms, k \in BOOLEAN, d \in PolicyData :
          PolicyEnrich(c, p, k, d)
    \/ \E c \in CVEs, ps \in (SUBSET Platforms) \ {{}} : LoadApplePattern(c, ps)
    \/ \E c \in CVEs, t \in AppleTexts, p \in Platforms : AnalyzeText(c, t, p)
    \/ \E cs \in ReleaseCveLists, p \in Platforms : EnrichRelease(cs, p)


(***************************************************************************)
(* HTTP page cache: SecurityPageFetcher                                    *)
(*                                                                         *)
(* The cache is keyed by SHA-1(url) and the entries of different URLs      *)
(* never interact, so the three files of one URL are modelled.             *)
(***************************************************************************)
MaxClock == 3

\* A page body: the visible text, and the script/style part that the content
\* hash ignores.  whole = FALSE is a prefix of the body (a cut-off write).
Bodies ==
    { [text |-> "a", script |-> 0, whole |-> TRUE],
      [text |-> "a", script |-> 1, whole |-> TRUE],
      [text |-> "b", script |-> 0, whole |-> TRUE] }

NoBody == [text |-> "", script |-> 0, whole |-> TRUE]

\* Values of the Last-Modified response header; "" is an absent header
LastModifieds == {"", "Tue"}

Procs == {1, 2}

Modes == {"page", "detail", "url"}

\* _get_content_hash: SHA-256 of the text with script/style/noscript removed
\* and whitespace collapsed (taken to be collision-free on the texts)
ContentHash(body) == body.text

NoMetaFile == [state |-> "none", last_modified |-> "", content_hash |-> "", seen |-> 0]

NoRawFile == [state |-> "none", body |-> NoBody]

NoParsedFile == [state |-> "none", rows |-> "", parsed_at |-> 0]

\* load_meta: {} when the file is missing or is not valid JSON
load_meta(file) ==
    IF file.state = "ok"
    THEN [last_modified |-> file.last_modified, content_hash |-> file.content_hash]
    ELSE [last_modified |-> "", content_hash |-> ""]

\* A load_raw that never finds the file
load_raw_NeverFound(file) == [found |-> FALSE, body |-> NoBody]

\* load_raw, with the truth test `if cached_html:` of its callers: an absent
\* or empty file is no cached content, any other content is
load_raw(file) ==
    IF file.state \in {"ok", "partial"}
    THEN [found |-> TRUE, body |-> file.body]
    ELSE [found |-> FALSE, body |-> NoBody]

\* load_parsed, with the truth test `if parsed_data:`
load_parsed(file) == file.state = "ok"

\* parse_security_page
parse_security_page(body, now) == [state |-> "ok", rows |-> body.text, parsed_at |-> now]

\* fetch_from_url: whether the request carries If-Modified-Since
UseIfModifiedSince(force, verify, meta) ==
    ~force /\ ~verify /\ meta.last_modified # ""

\* A retry that keeps the request's headers as they were
RetryConditional_KeepsHeader(cond) == cond

\* fetch_from_url on a 304 with no cached content: headers.pop('If-Modified-Since')
RetryConditional(cond) == FALSE

\* A fetch that never looks at the parsed cache
UseParsedCache_Never(force, verify, file) == FALSE

\* fetch: "Check if we have valid parsed data in cache"
UseParsedCache(force, verify, file) == ~force /\ load_parsed(file)

\* fetch_detail_pages: `alt_path.exists() and not force_refresh`
DetailIsCached(force, verify, file) == file.state # "none" /\ ~force

\* fetch_from_url: "Check if content actually changed (skip if forcing refresh)"
HashUnchanged(force, meta, hash) == ~force /\ meta.content_hash = hash

\* What a call keeps of the call the same process made before it
NoPrior == [mode |-> "none", noflags |-> FALSE, body |-> NoBody, data |-> NoParsedFile,
            saved |-> FALSE]

\* The locals of a call: its arguments, the metadata it loaded, the requests it
\* sent (for each, whether it carried If-Modified-Since), the response, the
\* branch it returned by, its result (body, was_modified; data is what fetch
\* returns), and the files it wrote
IdleCall ==
    [pc |-> "idle", mode |-> "url", force |-> FALSE, verify |-> FALSE,
     meta |-> [last_modified |-> "", content_hash |-> ""],
     reqs |-> << >>, resp |-> "none", html |-> NoBody, last_modified |-> "",
     path |-> "none", body |-> NoBody, was_modified |-> FALSE, data |-> NoParsedFile,
     wrote |-> {}, started |-> 0, prior |-> NoPrior]

PriorOf(c) ==
    IF c.pc = "done"
    THEN [mode |-> c.mode, noflags |-> ~c.force /\ ~c.verify, body |-> c.body,
          data |-> c.data, saved |-> "parsed" \in c.wrote]
    ELSE NoPrior

Active(p) == call[p].pc \notin {"idle", "done", "raised", "crashed"}

CacheInit ==
    /\ metaFile = NoMetaFile
    /\ rawFile = NoRawFile
    /\ parsedFile = NoParsedFile
    /\ clock = 0
    /\ call = [p \in Procs |-> IdleCall]

\* The end of fetch_from_url and what its caller does with the result: fetch
\* parses and saves the parsed data `if was_modified or force_refresh`
\* (save_parsed swallows a failed write: parsedOk = FALSE)
Return(p, c, path, body, modified, parsedOk) ==
    LET save == c.mode = "page" /\ (modified \/ c.force) /\ parsedOk IN
    /\ call' = [call EXCEPT ![p] =
                  [c EXCEPT !.pc = "done", !.path = path, !.body = body,
                            !.was_modified = modified,
                            !.data = IF c.mode = "page"
                                     THEN parse_security_page(body, clock)
                                     ELSE NoParsedFile,
                            !.wrote = IF save THEN @ \cup {"parsed"} ELSE @]]
    /\ parsedFile' = IF save THEN parse_security_page(body, clock) ELSE parsedFile

\* A call begins: fetch (an index page), the loop body of fetch_detail_pages, or
\* fetch_from_url itself.  The first two may answer from the cache; otherwise
\* fetch_from_url loads the metadata and sends its request.
Start(p, mode, force, verify) ==
    /\ ~Active(p)
    /\ clock < MaxClock
    /\ clock' = clock + 1
    /\ LET meta == load_meta(metaFile)
           c0 == [IdleCall EXCEPT !.mode = mode, !.force = force, !.verify = verify,
                                  !.started = clock + 1, !.prior = PriorOf(call[p])]
       IN  IF mode = "page" /\ UseParsedCache(force, verify, parsedFile)
           THEN call' = [call EXCEPT ![p] = [c0 EXCEPT !.pc = "done", !.path = "parsed_cache",
                                                       !.data = parsedFile]]
           ELSE IF mode = "detail" /\ DetailIsCached(force, verify, rawFile)
           THEN call' = [call EXCEPT ![p] = [c0 EXCEPT !.pc = "done", !.path = "detail_cached"]]
           ELSE call' = [call EXCEPT ![p] =
                           [c0 EXCEPT !.pc = "request", !.meta = meta,
                                      !.reqs = <<UseIfModifiedSince(force, verify, meta)>>]]
    /\ UNCHANGED <<metaFile, rawFile, parsedFile>>
    /\ UNCHANGED <<kev_vars, pipe_vars, feed_vars, gdmf_vars, emit_vars, hist_vars>>

\* requests.get raises RequestException, or raise_for_status does on a 4xx/5xx
RespondError(p, parsedOk) ==
    /\ call[p].pc = "request"
    /\ LET c == [call[p] EXCEPT !.resp = "error"]
           cached == load_raw(rawFile)
       IN  IF cached.found
           THEN Return(p, c, "error_fallback", cached.body, FALSE, parsedOk)
           ELSE /\ call' = [call EXCEPT ![p] = [c EXCEPT !.pc = "raised", !.path = "error_raised"]]
                /\ UNCHANGED parsedFile
    /\ UNCHANGED <<metaFile, rawFile, clock>>
    /\ UNCHANGED <<kev_vars, pipe_vars, feed_vars, gdmf_vars, emit_vars, hist_vars>>

\* The origin answers a conditional request with 304
Respond304(p, parsedOk) ==
    /\ call[p].pc = "request"
    /\ call[p].reqs[Len(call[p].reqs)]
    /\ LET c == [call[p] EXCEPT !.resp = "304"]
           cached == load_raw(rawFile)
       IN  IF cached.found
           THEN Return(p, c, "not_modified", cached.body, FALSE, parsedOk)
           ELSE /\ call' = [call EXCEPT ![p] =
                              [c EXCEPT !.reqs = Append(@, RetryConditional(TRUE)),
                                        !.path = "refetch"]]
                /\ UNCHANGED parsedFile
    /\ UNCHANGED <<metaFile, rawFile, clock>>
    /\ UNCHANGED <<kev_vars, pipe_vars, feed_vars, gdmf_vars, emit_vars, hist_vars>>

\* The origin answers 2xx with a body and (maybe) a Last-Modified header
Respond200(p, body, lm, parsedOk) ==
    /\ call[p].pc = "request"
    /\ LET c == [call[p] EXCEPT !.resp = "200", !.html = body, !.last_modified = lm] IN
       IF HashUnchanged(c.force, c.meta, ContentHash(body))
       THEN Return(p, c, "hash_match", body, FALSE, parsedOk)
       ELSE /\ call' = [call EXCEPT ![p] = [c EXCEPT !.pc = "save_meta"]]
            /\ UNCHANGED parsedFile
    /\ UNCHANGED <<metaFile, rawFile, clock>>
    /\ UNCHANGED <<kev_vars, pipe_vars, feed_vars, gdmf_vars, emit_vars, hist_vars>>

\* save_meta, `open(meta_path, 'w')`: the file is truncated in place; a failure
\* is logged and swallowed
SaveMetaOpen(p, ok) ==
    /\ call[p].pc = "save_meta"
    /\ IF ok
       THEN /\ metaFile' = [metaFile EXCEPT !.state = "empty"]
            /\ call' = [call EXCEPT ![p].pc = "save_meta_write"]
       ELSE /\ call' = [call EXCEPT ![p].pc = "save_raw"]
            /\ UNCHANGED metaFile
    /\ UNCHANGED <<rawFile, parsedFile, clock>>
    /\ UNCHANGED <<kev_vars, pipe_vars, feed_vars, gdmf_vars, emit_vars, hist_vars>>

\* save_meta, json.dump and close
SaveMetaWrite(p) ==
    /\ call[p].pc = "save_meta_write"
    /\ metaFile' = [state |-> "ok", last_modified |-> call[p].last_modified,
                    content_hash |-> ContentHash(call[p].html), seen |-> clock]
    /\ call' = [call EXCEPT ![p].pc = "save_raw", ![p].wrote = @ \cup {"meta"}]
    /\ UNCHANGED <<rawFile, parsedFile, clock>>
    /\ UNCHANGED <<kev_vars, pipe_vars, feed_vars, gdmf_vars, emit_vars, hist_vars>>

\* save_raw, `open(raw_path, 'w')`; on failure fetch_from_url goes on to return
SaveRawOpen(p, ok, parsedOk) ==
    /\ call[p].pc = "save_raw"
    /\ IF ok
       THEN /\ rawFile' = [rawFile EXCEPT !.state = "empty"]
            /\ call' = [call EXCEPT ![p].pc = "save_raw_write"]
            /\ UNCHANGED parsedFile
       ELSE /\ Return(p, call[p], "saved", call[p].html, TRUE, parsedOk)
            /\ UNCHANGED rawFile
    /\ UNCHANGED <<metaFile, clock>>
    /\ UNCHANGED <<kev_vars, pipe_vars, feed_vars, gdmf_vars, emit_vars, hist_vars>>

\* save_raw, f.write and close; then fetch_from_url returns (html_content, True)
SaveRawWrite(p, parsedOk) ==
    /\ call[p].pc = "save_raw_write"
    /\ rawFile' = [state |-> "ok", body |-> call[p].html]
    /\ Return(p, [call[p] EXCEPT !.wrote = @ \cup {"raw"}], "saved", call[p].html, TRUE, parsedOk)
    /\ UNCHANGED <<metaFile, clock>>
    /\ UNCHANGED <<kev_vars, pipe_vars, feed_vars, gdmf_vars, emit_vars, hist_vars>>

\* The process is killed.  A file it had open for writing stays truncated, or
\* holds the part of the data that had been flushed.
Crash(p, flushed) ==
    /\ Active(p)
    /\ call' = [call EXCEPT ![p].pc = "crashed"]
    /\ metaFile' = IF call[p].pc = "save_meta_write" /\ flushed
                   THEN [metaFile EXCEPT !.state = "partial"] ELSE metaFile
    /\ rawFile' = IF call[p].pc = "save_raw_write" /\ flushed
                  THEN [state |-> "partial", body |-> [call[p].html EXCEPT !.whole = FALSE]]
                  ELSE rawFile
    /\ UNCHANGED <<parsedFile, clock>>
    /\ UNCHANGED <<kev_vars, pipe_vars, feed_vars, gdmf_vars, emit_vars, hist_vars>>

CacheStep(p) ==
    \/ \E m \in Modes, f \in BOOLEAN, v \in BOOLEAN : Start(p, m, f, v)
    \/ \E po \in BOOLEAN : RespondError(p, po)
    \/ \E po \in BOOLEAN : Respond304(p, po)
    \/ \E b \in Bodies, lm \in LastModifieds, po \in BOOLEAN : Respond200(p, b, lm, po)
    \/ \E ok \in BOOLEAN : SaveMetaOpen(p, ok)
    \/ SaveMetaWrite(p)
    \/ \E ok \in BOOLEAN, po \in BOOLEAN : SaveRawOpen(p, ok, po)
    \/ \E po \in BOOLEAN : SaveRawWrite(p, po)
    \/ \E fl \in BOOLEAN : Crash(p, fl)

KevNext == KevStep

\* One fetching process at a time
CacheNext == CacheStep(1)

\* A process that calls fetch_from_url with no flags set, with no failing write
\* and no crash
ConcStep(p) ==
    \/ Start(p, "url", FALSE, FALSE)
    \/ RespondError(p, TRUE)
    \/ Respond304(p, TRUE)
    \/ \E b \in Bodies, lm \in LastModifieds : Respond200(p, b, lm, TRUE)
    \/ SaveMetaOpen(p, TRUE)
    \/ SaveMetaWrite(p)
    \/ SaveRawOpen(p, TRUE, TRUE)
    \/ SaveRawWrite(p, TRUE)

\* Two fetching processes on the same cache directory
CacheConcNext == \E p \in Procs : ConcStep(p)

(***************************************************************************)
(* Orchestrator: pipeline/run_sofa_pipeline.py                             *)
(*                                                                         *)
(* Every command is a child process; which of them exit nonzero is the     *)
(* environment's choice, given to a stage as the set `failing`.            *)
(***************************************************************************)
FetchPages == "Fetch Apple security pages"

Stage1Commands ==
    {FetchPages, "Fetch GDMF data", "Fetch CISA KEV catalog",
     "Fetch Apple OS releases (betas)", "Build CVE details cache",
     "Extract CVE details from pages"}

Stage2Commands ==
    {"Build security releases", "Analyze Apple KEV patterns", "Enrich with KEV data",
     "Apply retention policies"}

Stage3Commands ==
    {"Build v1 feeds", "Build v2 enhanced feeds", "Generate RSS feeds",
     "Validate v1 feeds", "Verify v2 integrity"}

\* --stages takes one or more of 1, 2, 3; all three when absent
StageSelections == (SUBSET {1, 2, 3}) \ {{}}

\* The exit code of fetch_security_pages.py: main exits 1 only when an
\* exception escapes; save_meta and save_raw log a failed write and return
fetch_security_pages_main(write_failed, escaped) == IF escaped THEN 1 ELSE 0

\* FETCH_INDEX_PAGES: the index pages enabled in the configuration
IndexPageIds == {"current", "2022-2023"}

\* fetch_all: the index pages it has a result for. A page that is neither
\* fetched nor in the cache raises inside fetch; the exception is logged
\* and the loop goes on, so fetch_all returns also when no page is left
fetch_all(unavailable) == IndexPageIds \ unavailable

\* run_command: True exactly when the child's return code is 0 (with
\* check=True the nonzero code arrives as an exception, with the same result)
run_command(description, failing) == description \notin failing

Opt(cond, description) == IF cond THEN <<description>> ELSE << >>

\* stage1_fetch_and_cache: every command runs with check=False, its result
\* is only logged, and `success` keeps its initial True
stage1_fetch_and_cache(skip_beta, skip_cve_cache, api_key, failing) ==
    [ok |-> TRUE,
     commands |-> <<FetchPages, "Fetch GDMF data", "Fetch CISA KEV catalog">>
                  \o Opt(~skip_beta, "Fetch Apple OS releases (betas)")
                  \o Opt(~skip_cve_cache /\ api_key, "Build CVE details cache")
                  \o <<"Extract CVE details from pages">>]

stage2_process_and_build(skip_kev_analysis, failing) ==
    IF ~run_command("Build security releases", failing)
    THEN [ok |-> FALSE, commands |-> <<"Build security releases">>]
    ELSE [ok |-> run_command("Apply retention policies", failing),
          commands |-> <<"Build security releases">>
                       \o Opt(~skip_kev_analysis, "Analyze Apple KEV patterns")
                       \o <<"Enrich with KEV data", "Apply retention policies">>]

stage3_produce_feeds(skip_v2, v2_exists, failing) ==
    IF ~run_command("Build v1 feeds", failing)
    THEN [ok |-> FALSE, commands |-> <<"Build v1 feeds">>]
    ELSE [ok |-> TRUE,
          commands |-> <<"Build v1 feeds">>
                       \o Opt(~skip_v2, "Build v2 enhanced feeds")
                       \o <<"Generate RSS feeds", "Validate v1 feeds">>
                       \o Opt(~skip_v2 /\ v2_exists, "Verify v2 integrity")]

\* run: "return 0 if success else 1"
RunExitCode(success) == IF success THEN 0 ELSE 1

IdleStageRun ==
    [pc |-> "idle", stages |-> {}, skip_beta |-> FALSE, skip_cve_cache |-> FALSE,
     skip_kev_analysis |-> FALSE, skip_v2 |-> FALSE,
     ran |-> << >>, result |-> [st \in {1, 2, 3} |-> "none"],
     commands |-> << >>, failed |-> {}, cache_write_failed |-> FALSE,
     index_pages |-> {},
     success |-> TRUE, exit |-> 0]

IdleCliRun ==
    [pc |-> "idle", stages |-> {}, skip_gather |-> FALSE, skip_fetch |-> FALSE,
     results |-> << >>, exit |-> 0]

PipeInit == stage_run = IdleStageRun /\ cli_run = IdleCliRun

\* main: parse the arguments and enter run
RunStart(stages, skip_beta, skip_cve_cache, skip_kev_analysis, skip_v2) ==
    /\ stage_run.pc = "idle" /\ cli_run.pc = "idle"
    /\ stage_run' = [IdleStageRun EXCEPT !.pc = "stage1", !.stages = stages,
                                         !.skip_beta = skip_beta,
                                         !.skip_cve_cache = skip_cve_cache,
                                         !.skip_kev_analysis = skip_kev_analysis,
                                         !.skip_v2 = skip_v2]
    /\ UNCHANGED cli_run
    /\ UNCHANGED <<kev_vars, cache_vars, feed_vars, gdmf_vars, emit_vars, hist_vars>>

\* What run does with the result of one stage
AfterStage(st, r, failing, next) ==
    [stage_run EXCEPT !.pc = next,
                      !.ran = Append(@, st),
                      !.result[st] = IF r.ok THEN "ok" ELSE "failed",
                      !.commands = r.commands,
                      !.failed = failing \cap SeqToSet(r.commands),
                      !.success = @ /\ r.ok]

\* run: "if 1 in stages"
RunStage1(api_key, others, write_failed, escaped, unavailable) ==
    /\ stage_run.pc = "stage1"
    /\ UNCHANGED cli_run
    /\ IF 1 \in stage_run.stages
       THEN LET failing == others \cup
                           (IF fetch_security_pages_main(write_failed, escaped) # 0
                            THEN {FetchPages} ELSE {})
                r == stage1_fetch_and_cache(stage_run.skip_beta, stage_run.skip_cve_cache,
                                            api_key, failing)
            IN  stage_run' = [AfterStage(1, r, failing, "stage2")
                                EXCEPT !.cache_write_failed = write_failed,
                                       !.index_pages = fetch_all(unavailable)]
       ELSE stage_run' = [stage_run EXCEPT !.pc = "stage2"]
    /\ UNCHANGED <<kev_vars, cache_vars, feed_vars, gdmf_vars, emit_vars, hist_vars>>

\* run: "if 2 in stages"
RunStage2(failing) ==
    /\ stage_run.pc = "stage2"
    /\ UNCHANGED cli_run
    /\ IF 2 \in stage_run.stages
       THEN stage_run' = AfterStage(2, stage2_process_and_build(stage_run.skip_kev_analysis,
                                                                failing),
                                    failing, "stage3")
       ELSE stage_run' = [stage_run EXCEPT !.pc = "stage3"]
    /\ UNCHANGED <<kev_vars, cache_vars, feed_vars, gdmf_vars, emit_vars, hist_vars>>

\* run: "if 3 in stages"
RunStage3(v2_exists, failing) ==
    /\ stage_run.pc = "stage3"
    /\ UNCHANGED cli_run
    /\ IF 3 \in stage_run.stages
       THEN stage_run' = AfterStage(3, stage3_produce_feeds(stage_run.skip_v2, v2_exists,
                                                            failing),
                                    failing, "summary")
       ELSE stage_run' = [stage_run EXCEPT !.pc = "summary"]
    /\ UNCHANGED <<kev_vars, cache_vars, feed_vars, gdmf_vars, emit_vars, hist_vars>>

\* run: print_summary and return; main: sys.exit
RunExit ==
    /\ stage_run.pc = "summary"
    /\ stage_run' = [stage_run EXCEPT !.pc = "exited",
                                      !.exit = RunExitCode(stage_run.success)]
    /\ UNCHANGED cli_run
    /\ UNCHANGED <<kev_vars, cache_vars, feed_vars, gdmf_vars, emit_vars, hist_vars>>

StageRunStep ==
    \/ \E st \in StageSelections, sb, sc, sk, sv \in BOOLEAN : RunStart(st, sb, sc, sk, sv)
    \/ \E k, wf, esc \in BOOLEAN, o \in SUBSET (Stage1Commands \ {FetchPages}),
          u \in SUBSET IndexPageIds :
           RunStage1(k, o, wf, esc, u)
    \/ \E f \in SUBSET Stage2Commands : RunStage2(f)
    \/ \E v \in BOOLEAN, f \in SUBSET Stage3Commands : RunStage3(v, f)
    \/ RunExit

(***************************************************************************)
(* Orchestrator: scripts/sofa_pipeline.py                                  *)
(***************************************************************************)
PipelineStage == {"gather", "fetch", "build", "bulletin", "rss", "cve", "all"}

\* The --stage selections of the command's usage examples, and the default
CliSelections ==
    {{"all"}, {"gather"}, {"fetch"}, {"build"}, {"gather", "fetch"},
     {"build", "bulletin", "rss"}, {"cve"}}

\* PipelineConfig.gather_sources, its default
gather_sources == {"kev", "gdmf", "ipsw", "xprotect", "beta", "uma"}

PipelineResult(stage, success, errors) ==
    [stage |-> stage, success |-> success, errors |-> errors]

\* run_gather: one error per source whose sofa-gather run failed
run_gather(failed) == PipelineResult("gather", failed = {}, failed)

\* run_fetch: success needs return code 0 and the output file
run_fetch(returncode, output_exists) ==
    IF returncode = 0 /\ output_exists
    THEN PipelineResult("fetch", TRUE, {})
    ELSE PipelineResult("fetch", FALSE, {"fetch failed"})

\* run_build, run_bulletin, run_rss, run_cve_pipeline: success is
\* "no error collected"
StageResult(stage, ok) ==
    PipelineResult(stage, ok, IF ok THEN {} ELSE {stage})

Selected(stage) == "all" \in cli_run.stages \/ stage \in cli_run.stages

\* The typer command `run`: build the pipeline object and call run
CliStart(stages, skip_gather, skip_fetch) ==
    /\ stage_run.pc = "idle" /\ cli_run.pc = "idle"
    /\ cli_run' = [IdleCliRun EXCEPT !.pc = "validate", !.stages = stages,
                                     !.skip_gather = skip_gather,
                                     !.skip_fetch = skip_fetch]
    /\ UNCHANGED stage_run
    /\ UNCHANGED <<kev_vars, cache_vars, feed_vars, gdmf_vars, emit_vars, hist_vars>>

\* run: validate_config, auto_setup, validate_config again, sys.exit(1)
CliValidate(valid, valid_after_setup) ==
    /\ cli_run.pc = "validate"
    /\ UNCHANGED stage_run
    /\ IF ~valid /\ ~valid_after_setup
       THEN cli_run' = [cli_run EXCEPT !.pc = "exited", !.exit = 1]
       ELSE cli_run' = [cli_run EXCEPT !.pc = "gather"]
    /\ UNCHANGED <<kev_vars, cache_vars, feed_vars, gdmf_vars, emit_vars, hist_vars>>

\* One stage block of run: append the stage's result unless it is not
\* selected or skipped
CliStage(pc, next, run_it, results) ==
    /\ cli_run.pc = pc
    /\ UNCHANGED stage_run
    /\ cli_run' = [cli_run EXCEPT !.pc = next,
                                  !.results = IF run_it THEN @ \o results ELSE @]
    /\ UNCHANGED <<kev_vars, cache_vars, feed_vars, gdmf_vars, emit_vars, hist_vars>>

CliGather(failed) ==
    CliStage("gather", "fetch", Selected("gather") /\ ~cli_run.skip_gather,
             <<run_gather(failed)>>)

CliFetch(returncode, output_exists) ==
    CliStage("fetch", "build", Selected("fetch") /\ ~cli_run.skip_fetch,
             <<run_fetch(returncode, output_exists)>>)

CliBuild(v1_ok, v2_ok) ==
    CliStage("build", "bulletin", Selected("build"),
             <<StageResult("build", v1_ok), StageResult("build", v2_ok)>>)

CliBulletin(ok) ==
    CliStage("bulletin", "rss", Selected("bulletin"), <<StageResult("bulletin", ok)>>)

CliRss(ok) ==
    CliStage("rss", "cve", Selected("rss"), <<StageResult("rss", ok)>>)

\* "if PipelineStage.CVE in stages": not part of `all`
CliCve(ok) ==
    CliStage("cve", "summary", "cve" \in cli_run.stages, <<StageResult("cve", ok)>>)

\* run: verify_results, the summary table; run returns None and the
\* process ends with code 0
CliExit ==
    /\ cli_run.pc = "summary"
    /\ cli_run' = [cli_run EXCEPT !.pc = "exited", !.exit = 0]
    /\ UNCHANGED stage_run
    /\ UNCHANGED <<kev_vars, cache_vars, feed_vars, gdmf_vars, emit_vars, hist_vars>>

CliRunStep ==
    \/ \E st \in CliSelections, sg, sf \in BOOLEAN : CliStart(st, sg, sf)
    \/ \E v, w \in BOOLEAN : CliValidate(v, w)
    \/ \E f \in SUBSET gather_sources : CliGather(f)
    \/ \E rc \in {0, 1}, ex \in BOOLEAN : CliFetch(rc, ex)
    \/ \E a, b \in BOOLEAN : CliBuild(a, b)
    \/ \E ok \in BOOLEAN : CliBulletin(ok)
    \/ \E ok \in BOOLEAN : CliRss(ok)
    \/ \E ok \in BOOLEAN : CliCve(ok)
    \/ CliExit

PipeNext == StageRunStep \/ CliRunStep

(***************************************************************************)
(* Feed builders: GDMF matching (builders/build_complete_feeds.py)         *)
(*                                                                         *)
(* A version string is modelled by the tuple of its numeric components     *)
(* ("15.2" is <<15, 2>>); the absent version is the empty tuple.  A build  *)
(* is a string, "" when absent.                                            *)
(***************************************************************************)
MaxAssets == 3

MaxReleases == 2

Devices == {"Mac1", "Mac2", "Mac3", "Mac4", "Watch1", "iPhone1"}

\* str.startswith on the device identifiers of the model
StartsWith(device, prefix) ==
    \/ prefix = "Mac" /\ device \in {"Mac1", "Mac2", "Mac3", "Mac4"}
    \/ prefix = "Watch" /\ device = "Watch1"
    \/ prefix = "iPhone" /\ device = "iPhone1"

\* The build strings of the model in the order of Python's string comparison
BuildsAscending == <<"22C10", "22D49", "22D50", "22D51">>

\* list.sort() on a list of distinct build strings
SortBuilds(builds) == SelectSeq(BuildsAscending, LAMBDA b : InSeq(b, builds))

\* The GDMF assets the manifests of the model are made of
GdmfAssets ==
    { [ProductVersion |-> <<15, 2>>, Build |-> "22D50", ExpirationDate |-> "2025-06-01",
       SupportedDevices |-> <<"Mac1", "Mac2">>],
      [ProductVersion |-> <<15, 2>>, Build |-> "22D51", ExpirationDate |-> "2025-07-01",
       SupportedDevices |-> <<"Mac2", "Mac3">>],
      [ProductVersion |-> <<15, 2>>, Build |-> "22D50", ExpirationDate |-> "",
       SupportedDevices |-> <<"Mac3", "Mac4">>],
      [ProductVersion |-> <<15, 2>>, Build |-> "22D49", ExpirationDate |-> "2025-06-01",
       SupportedDevices |-> <<"Watch1">>],
      [ProductVersion |-> <<15, 2>>, Build |-> "", ExpirationDate |-> "",
       SupportedDevices |-> << >>],
      [ProductVersion |-> <<15, 1>>, Build |-> "22C10", ExpirationDate |-> "",
       SupportedDevices |-> <<"iPhone1", "Mac1">>] }

\* Where an asset sits in the manifest: the asset set and the OS key
GdmfSlots == { <<"PublicAssetSets", "macOS">>, <<"AssetSets", "macOS">>,
               <<"PublicAssetSets", "iOS">> }

\* The assets of one slot, in the order of the placements
SlotAssets(placements, slot) ==
    LET RECURSIVE Collect(_)
        Collect(i) == IF i > Len(placements) THEN << >>
                      ELSE (IF placements[i].slot = slot THEN <<placements[i].asset>>
                            ELSE << >>) \o Collect(i + 1)
    IN  Collect(1)

\* GDMFData: the two asset sets, each a dict from OS key to a list of assets
GDMFData(placements) ==
    [PublicAssetSets |-> [iOS |-> SlotAssets(placements, <<"PublicAssetSets", "iOS">>),
                          macOS |-> SlotAssets(placements, <<"PublicAssetSets", "macOS">>)],
     AssetSets |-> [iOS |-> SlotAssets(placements, <<"AssetSets", "iOS">>),
                    macOS |-> SlotAssets(placements, <<"AssetSets", "macOS">>)]]

GdmfPlacements == [asset : GdmfAssets, slot : GdmfSlots]

\* The manifests of at most n assets
GdmfInputs(n) ==
    { GDMFData(ps) : ps \in UNION { [1..k -> GdmfPlacements] : k \in 0..n } }

OsKeys == {"macOS", "iOS", "watchOS"}

GdmfVersions == { <<15, 1>>, <<15, 2>> }

\* any(d.startswith(prefixes) for d in devices), false for an empty list
AnyStartsWith(devices, prefixes) ==
    \E i \in 1..Len(devices) : \E p \in prefixes : StartsWith(devices[i], p)

\* The device prefixes that identify the assets of an OS (lines 276-305)
FamilyPrefixes(os_key) ==
    CASE os_key \in {"iOS", "ios"} -> {"iPhone", "iPad"}
      [] os_key \in {"tvOS", "tvos"} -> {"AppleTV"}
      [] os_key \in {"watchOS", "watchos"} -> {"Watch"}
      [] os_key \in {"visionOS", "visionos"} -> {"RealityDevice"}
      [] os_key \in {"macOS", "macos"} -> {"Mac", "MacBook"}
      [] OTHER -> {}

\* asset_set.get(search_key, [])
OsAssets(asset_set, search_key) ==
    IF search_key \in DOMAIN asset_set THEN asset_set[search_key] ELSE << >>

\* all_matches: the assets of the version found in both asset sets
AllMatches(os_key, version, gdmf_data) ==
    LET search_key == IF os_key \in {"watchOS", "tvOS"} THEN "iOS" ELSE os_key
        os_assets == OsAssets(gdmf_data.PublicAssetSets, search_key)
                     \o OsAssets(gdmf_data.AssetSets, search_key)
    IN  SelectSeq(os_assets, LAMBDA a :
            /\ a.ProductVersion = version
            /\ os_key = "watchOS" => AnyStartsWith(a.SupportedDevices, {"Watch"})
            /\ os_key = "tvOS" => AnyStartsWith(a.SupportedDevices, {"AppleTV"}))

\* matches_to_merge: the matches of the OS's device family, or all of them
MatchesToMerge(os_key, version, gdmf_data) ==
    LET all_matches == AllMatches(os_key, version, gdmf_data)
        filtered_matches == SelectSeq(all_matches, LAMBDA a :
            AnyStartsWith(a.SupportedDevices, FamilyPrefixes(os_key)))
    IN  IF filtered_matches # << >> THEN filtered_matches ELSE all_matches

\* The concatenation of the device lists of the matches
AllDevices(matches) ==
    LET RECURSIVE Extend(_)
        Extend(i) == IF i > Len(matches) THEN << >>
                     ELSE matches[i].SupportedDevices \o Extend(i + 1)
    IN  Extend(1)

\* "Remove duplicates while preserving order" (lines 316-322)
UniqueDevices(all_devices) ==
    LET RECURSIVE Walk(_, _)
        Walk(i, unique_devices) ==
            IF i > Len(all_devices) THEN unique_devices
            ELSE Walk(i + 1, IF InSeq(all_devices[i], unique_devices) THEN unique_devices
                             ELSE Append(unique_devices, all_devices[i]))
    IN  Walk(1, << >>)

\* The distinct truthy builds of the matches, in encounter order (lines 326-330)
CollectBuilds(matches) ==
    LET RECURSIVE Walk(_, _)
        Walk(i, all_builds) ==
            IF i > Len(matches) THEN all_builds
            ELSE Walk(i + 1, IF matches[i].Build # "" /\ ~InSeq(matches[i].Build, all_builds)
                             THEN Append(all_builds, matches[i].Build) ELSE all_builds)
    IN  Walk(1, << >>)

\* The value of _find_gdmf_match when nothing matches (None)
NoGdmfMatch == [found |-> FALSE, ProductVersion |-> << >>, Build |-> "", ExpirationDate |-> "",
                SupportedDevices |-> << >>, AllBuilds |-> << >>]

\* CompleteFeedBuilder._find_gdmf_match: the first match, with the merged
\* devices and the sorted builds of all the matches
find_gdmf_match(os_key, version, gdmf_data) ==
    LET matches_to_merge == MatchesToMerge(os_key, version, gdmf_data)
    IN  IF matches_to_merge = << >> THEN NoGdmfMatch
        ELSE [found |-> TRUE,
              ProductVersion |-> matches_to_merge[1].ProductVersion,
              Build |-> matches_to_merge[1].Build,
              ExpirationDate |-> matches_to_merge[1].ExpirationDate,
              SupportedDevices |-> UniqueDevices(AllDevices(matches_to_merge)),
              AllBuilds |-> SortBuilds(CollectBuilds(matches_to_merge))]

\* CompleteFeedBuilder.enrich_with_gdmf, one release: the build, devices and
\* expiration date of the merged match are written into the release record
enrich_release_with_gdmf(os_key, release, gdmf_data) ==
    LET gdmf_match == find_gdmf_match(os_key, release.version, gdmf_data)
    IN  IF release.version = << >> \/ ~gdmf_match.found THEN release
        ELSE [release EXCEPT
                !.Build = gdmf_match.Build,
                !.SupportedDevices = gdmf_match.SupportedDevices,
                !.ExpirationDate = IF gdmf_match.ExpirationDate # ""
                                   THEN gdmf_match.ExpirationDate ELSE @]

\* CompleteFeedBuilder.enrich_with_gdmf: scraped_data["releases"], enriched
enrich_with_gdmf(os_type, releases, gdmf_data) ==
    [i \in DOMAIN releases |-> enrich_release_with_gdmf(os_type, releases[i], gdmf_data)]

(***************************************************************************)
(* Feed builders: processors/device_consolidator.py                        *)
(***************************************************************************)
\* The devices of every asset of the version, of any OS type, in the order
\* DeviceConsolidator._find_gdmf_devices extends its list
ConsolidatorDevices(version, gdmf_data) ==
    LET assets == gdmf_data.PublicAssetSets.iOS \o gdmf_data.PublicAssetSets.macOS
                  \o gdmf_data.AssetSets.iOS \o gdmf_data.AssetSets.macOS
    IN  AllDevices(SelectSeq(assets, LAMBDA a : a.ProductVersion = version))

\* list(set(devices)): the distinct devices, in an order the language does
\* not fix (the iteration order of a set of strings changes with the hash seed)
ListOfSet(devices) ==
    { s \in [1..Cardinality(SeqToSet(devices)) -> SeqToSet(devices)] :
        \A i, j \in DOMAIN s : i # j => s[i] # s[j] }

\* DeviceConsolidator.merge_device_lists of two lists
merge_device_lists(current_devices, gdmf_devices) ==
    UniqueDevices(SelectSeq(current_devices \o gdmf_devices, LAMBDA d : d # ""))

(***************************************************************************)
(* Feed builders: CompleteFeedBuilder.create_legacy_feed                   *)
(*                                                                         *)
(* The records carry the fields the releases, builds, devices and CVEs     *)
(* decide; the dates, the update hash and the macOS annexes are left out.  *)
(***************************************************************************)
\* The i-th component of a version, 0 past its end (packaging's Version
\* compares releases with the trailing zeros dropped)
VersionPart(version, i) == IF i <= Len(version) THEN version[i] ELSE 0

\* pkg_version.parse(a) < pkg_version.parse(b)
VersionLess(a, b) ==
    \E i \in 1..(IF Len(a) > Len(b) THEN Len(a) ELSE Len(b)) :
        /\ VersionPart(a, i) < VersionPart(b, i)
        /\ \A j \in 1..(i - 1) : VersionPart(a, j) = VersionPart(b, j)

\* list.sort(key=pkg_version.parse(version), reverse=True): newest first,
\* releases of equal version in their original order
SortNewestFirst(releases) ==
    LET RECURSIVE Insert(_, _), Sort(_)
        Insert(sorted, r) ==
            IF sorted = << >> THEN <<r>>
            ELSE IF VersionLess(Head(sorted).version, r.version) THEN <<r>> \o sorted
            ELSE <<Head(sorted)>> \o Insert(Tail(sorted), r)
        Sort(i) == IF i = 0 THEN << >> ELSE Insert(Sort(i - 1), releases[i])
    IN  Sort(Len(releases))

\* config["softwareReleases"] of one OS type: the OSVersion names and the
\* major version each name ends with
SoftwareReleases == << [name |-> "Sequoia 15", major |-> 15],
                       [name |-> "Sonoma 14", major |-> 14] >>

\* version.startswith(target_major + ".")
StartsWithMajor(version, major) == Len(version) >= 2 /\ version[1] = major

\* The releases of the scraped data that belong to an OSVersion
MatchingReleases(releases, major) ==
    SelectSeq(releases, LAMBDA r : r.version # << >> /\ StartsWithMajor(r.version, major))

\* The empty dict
EmptyDict == << >>

IsEmptyDict(d) == DOMAIN d = {}

\* KEVFetcher.enrich_cves_with_kev: a CVE of the catalog is marked exploited
enrich_cves_with_kev(cves, kev) ==
    [c \in DOMAIN cves |-> IF cves[c] THEN TRUE ELSE c \in kev]

\* The keys of {cve: ... for cve in cves}, in insertion order
DictKeys(cves) == UniqueDevices(cves)

\* The Build of a record: the first of AllBuilds, else the scraped build, else
\* the build of the GDMF match
ChooseBuild(all_builds, release, gdmf_match) ==
    IF all_builds # << >> THEN all_builds[1]
    ELSE IF release.build # "" THEN release.build
    ELSE IF gdmf_match.found /\ gdmf_match.Build # "" THEN gdmf_match.Build
    ELSE ""

\* os_version_data["Latest"] of the newest matching release
LatestRecord(os_type, release, gdmf_data) ==
    LET gdmf_match == find_gdmf_match(os_type, release.version, gdmf_data)
        all_builds == IF gdmf_match.found THEN gdmf_match.AllBuilds ELSE << >>
    IN  [ProductVersion |-> release.version,
         Build |-> ChooseBuild(all_builds, release, gdmf_match),
         AllBuilds |-> all_builds,
         ExpirationDate |-> IF gdmf_match.found THEN gdmf_match.ExpirationDate ELSE "",
         SupportedDevices |-> IF gdmf_match.found THEN gdmf_match.SupportedDevices ELSE << >>,
         SecurityInfo |-> release.url,
         CVEs |-> [c \in SeqToSet(release.cves) |-> InSeq(c, release.actively_exploited_cves)],
         ActivelyExploitedCVEs |-> release.actively_exploited_cves,
         UniqueCVEsCount |-> Cardinality(SeqToSet(release.cves))]

\* One entry of os_version_data["SecurityReleases"]
SecurityReleaseRecord(os_type, rel, gdmf_data, kev) ==
    LET rel_gdmf == find_gdmf_match(os_type, rel.version, gdmf_data)
        rel_cves == enrich_cves_with_kev([c \in SeqToSet(rel.cves) |-> FALSE], kev)
    IN  [UpdateName |-> rel.title,
         ProductName |-> os_type,
         ProductVersion |-> rel.version,
         ReleaseType |-> "OS",
         SecurityInfo |-> rel.url,
         SupportedDevices |-> IF rel_gdmf.found THEN rel_gdmf.SupportedDevices ELSE << >>,
         CVEs |-> rel_cves,
         ActivelyExploitedCVEs |-> SelectSeq(DictKeys(rel.cves), LAMBDA c : rel_cves[c]),
         UniqueCVEsCount |-> Cardinality(DOMAIN rel_cves)]

\* The OSVersions entry of one configured release name
OsVersionData(os_type, config, releases, gdmf_data, kev) ==
    LET matching_releases == SortNewestFirst(MatchingReleases(releases, config.major))
    IN  [OSVersion |-> config.name,
         Latest |-> IF matching_releases = << >> THEN EmptyDict
                    ELSE LatestRecord(os_type, matching_releases[1], gdmf_data),
         SecurityReleases |->
             [i \in DOMAIN matching_releases |->
                 SecurityReleaseRecord(os_type, matching_releases[i], gdmf_data, kev)]]

\* CompleteFeedBuilder.create_legacy_feed: the OSVersions of the v1 feed
create_legacy_feed(os_type, releases, gdmf_data, kev) ==
    [i \in DOMAIN SoftwareReleases |->
        OsVersionData(os_type, SoftwareReleases[i], releases, gdmf_data, kev)]

(***************************************************************************)
(* Feed builders: SafariFeedBuilder.build_safari_feed                      *)
(***************************************************************************)
\* The characters of a version string, by code point: "." is 46, a digit d
\* is 48 + d
DigitChars(n) == IF n < 10 THEN <<48 + n>> ELSE <<48 + (n \div 10), 48 + (n % 10)>>

VersionString(version) ==
    LET RECURSIVE Join(_)
        Join(i) == IF i > Len(version) THEN << >>
                   ELSE (IF i > 1 THEN <<46>> ELSE << >>) \o DigitChars(version[i]) \o Join(i + 1)
    IN  Join(1)

\* Python's comparison of two strings, a > b
StringGreater(a, b) ==
    \/ \E i \in 1..Len(b) :
          /\ i <= Len(a) /\ a[i] > b[i]
          /\ \A j \in 1..(i - 1) : a[j] = b[j]
    \/ Len(a) > Len(b) /\ \A j \in 1..Len(b) : a[j] = b[j]

\* Releases of cache/scraped_data.json; version is the match of
\* "Safari\s+([\d.]+)" in the title, empty when the title has none
SafariScrapedReleases ==
    { [title |-> "Safari 18.2", version |-> <<18, 2>>, build |-> "20620.1.16", cves |-> <<"CVE-2024-44308">>],
      [title |-> "Safari 17.6", version |-> <<17, 6>>, build |-> "", cves |-> <<"CVE-2025-24201">>],
      [title |-> "Safari 9.1", version |-> <<9, 1>>, build |-> "", cves |-> << >>],
      [title |-> "macOS Sequoia 15.2", version |-> << >>, build |-> "", cves |-> <<"CVE-2024-44308">>] }

SafariScrapedData == UNION { [1..k -> SafariScrapedReleases] : k \in 0..(MaxReleases + 1) }

\* The record appended to safari_releases
SafariRelease(release, kev) ==
    LET cves_dict == enrich_cves_with_kev([c \in SeqToSet(release.cves) |-> FALSE], kev)
    IN  [UpdateName |-> release.title,
         ProductName |-> "Safari",
         ProductVersion |-> release.version,
         Build |-> release.build,
         AllBuilds |-> IF release.build # "" THEN <<release.build>> ELSE << >>,
         ReleaseType |-> "Browser",
         CVEs |-> cves_dict,
         ActivelyExploitedCVEs |-> SelectSeq(DictKeys(release.cves), LAMBDA c : cves_dict[c]),
         UniqueCVEsCount |-> Cardinality(DOMAIN cves_dict)]

\* latest_safari of a release
SafariLatest(release, kev) ==
    LET r == SafariRelease(release, kev)
    IN  [ProductVersion |-> r.ProductVersion, Build |-> r.Build, AllBuilds |-> r.AllBuilds,
         CVEs |-> r.CVEs, ActivelyExploitedCVEs |-> r.ActivelyExploitedCVEs,
         UniqueCVEsCount |-> r.UniqueCVEsCount]

\* "Keep track of latest": a release replaces the latest when its version
\* string is greater
TrackLatest(safari, kev) ==
    LET RECURSIVE Walk(_, _)
        Walk(i, latest_safari) ==
            IF i > Len(safari) THEN latest_safari
            ELSE Walk(i + 1,
                      IF IsEmptyDict(latest_safari)
                         \/ StringGreater(VersionString(safari[i].version),
                                          VersionString(latest_safari.ProductVersion))
                      THEN SafariLatest(safari[i], kev) ELSE latest_safari)
    IN  Walk(1, EmptyDict)

\* SafariFeedBuilder.build_safari_feed
build_safari_feed(releases, kev) ==
    LET safari == SelectSeq(releases, LAMBDA r : r.version # << >>)
        sorted == SortNewestFirst(safari)
    IN  [Latest |-> TrackLatest(safari, kev),
         SecurityReleases |-> [i \in DOMAIN sorted |-> SafariRelease(sorted[i], kev)]]

(***************************************************************************)
(* Feed builders: inputs and actions                                       *)
(***************************************************************************)
\* Releases of the scraped data (<os>.json); a key that is absent reads as
\* the empty value
ScrapedRelease(title, version, build, cves, exploited) ==
    [title |-> title, version |-> version, build |-> build, cves |-> cves,
     actively_exploited_cves |-> exploited, url |-> "https://support.apple.com/" \o title,
     cross_platform_exploitation_warnings |-> << >>,
     Build |-> "", SupportedDevices |-> << >>, ExpirationDate |-> ""]

ScrapedReleases ==
    { ScrapedRelease("macOS Sequoia 15.2", <<15, 2>>, "", <<"CVE-2024-44308", "CVE-2025-24201">>,
                     <<"CVE-2024-44308">>),
      ScrapedRelease("macOS Sequoia 15.1", <<15, 1>>, "22C10", <<"CVE-2025-24201">>, << >>),
      ScrapedRelease("macOS Sequoia 15.10", <<15, 10>>, "", << >>, << >>),
      ScrapedRelease("macOS Sonoma 14.7", <<14, 7>>, "21H10", <<"CVE-2024-44308">>, << >>),
      ScrapedRelease("Rapid Security Response", << >>, "", << >>, << >>) }

ScrapedData == UNION { [1..k -> ScrapedReleases] : k \in 0..MaxReleases }

FeedInit == feed_out = [op |-> "none"]

\* The builders keep no state between calls, so a behaviour makes one call
NoFeedCallYet == feed_out.op = "none"

\* _find_gdmf_match on a manifest of the model
FindGdmfMatch(os_key, version, gdmf_data) ==
    /\ feed_out' = [op |-> "_find_gdmf_match", os_key |-> os_key, version |-> version,
                    gdmf_data |-> gdmf_data,
                    matches |-> MatchesToMerge(os_key, version, gdmf_data),
                    result |-> find_gdmf_match(os_key, version, gdmf_data)]
    /\ UNCHANGED <<kev_vars, cache_vars, pipe_vars, gdmf_vars, emit_vars, hist_vars>>

\* enrich_with_gdmf on the scraped data of one OS
EnrichWithGdmf(os_type, releases, gdmf_data) ==
    /\ feed_out' = [op |-> "enrich_with_gdmf", os_type |-> os_type, releases |-> releases,
                    gdmf_data |-> gdmf_data,
                    result |-> enrich_with_gdmf(os_type, releases, gdmf_data)]
    /\ UNCHANGED <<kev_vars, cache_vars, pipe_vars, gdmf_vars, emit_vars, hist_vars>>

\* DeviceConsolidator._find_gdmf_devices
FindGdmfDevices(version, gdmf_data) ==
    /\ \E devices \in ListOfSet(ConsolidatorDevices(version, gdmf_data)) :
          feed_out' = [op |-> "_find_gdmf_devices", version |-> version,
                       gdmf_data |-> gdmf_data,
                       collected |-> ConsolidatorDevices(version, gdmf_data),
                       result |-> devices]
    /\ UNCHANGED <<kev_vars, cache_vars, pipe_vars, gdmf_vars, emit_vars, hist_vars>>

(***************************************************************************)
(* Feed builders: V2EnhancedFeedBuilder (generators/build_v2_feeds_enhanced.py) *)
(***************************************************************************)
\* detector.apple_exploited after load_apple_patterns has read one exploited
\* CVE of the given platforms; empty when the CVE has no platform
LoadedPatterns(cve, platforms) ==
    IF platforms = {} THEN << >>
    ELSE [c \in {cve} |->
            [EmptyInfo(cve, "unknown") EXCEPT
                !.is_exploited = TRUE, !.confidence = "confirmed",
                !.sources = <<"apple_direct">>,
                !.affected_platforms = platforms,
                !.notes = [kind |-> "categories", platforms |-> {}]]]

\* enriched = release.copy() with the fields enrich_release adds
WithEnrichment(release, enriched) ==
    [release EXCEPT
        !.actively_exploited_cves = enriched.actively_exploited_cves,
        !.cross_platform_exploitation_warnings =
            enriched.cross_platform_exploitation_warnings]

\* The release as SmartKEVEnricher.enrich_release leaves it in <os>.json
SmartKevEnriched(release, known, kevs, platform) ==
    WithEnrichment(release, enrich_release(known, kevs, release.cves, platform))

\* CVEDetailExtractor.get_cve_info of a CVE that has details
CveDetails(cve_id) ==
    [component |-> "WebKit", impact |-> "Processing maliciously crafted web content",
     description |-> "The issue was addressed with improved checks.",
     available_for |-> "macOS Sequoia"]

\* V2EnhancedFeedBuilder.enhance_cve_dict; with_details is the set of CVEs
\* the extractor has details for
enhance_cve_dict(cves_dict, with_details) ==
    [cve_id \in DOMAIN cves_dict |->
        IF cve_id \in with_details
        THEN [id |-> cve_id, is_exploited |-> cves_dict[cve_id],
              component |-> "Web Browser", component_raw |-> CveDetails(cve_id).component,
              impact |-> CveDetails(cve_id).impact,
              description |-> CveDetails(cve_id).description,
              platforms |-> CveDetails(cve_id).available_for]
        ELSE [id |-> cve_id, is_exploited |-> cves_dict[cve_id], component |-> "System"]]

\* V2EnhancedFeedBuilder.enhance_latest
enhance_latest(latest, with_details) ==
    IF IsEmptyDict(latest) THEN latest
    ELSE [ComponentsAffected |->
              IF DOMAIN latest.CVEs \cap with_details # {} THEN <<"WebKit">> ELSE << >>]
         @@ latest

\* One release of the v2 feed: the v1 record with the enhanced CVEs, the
\* component breakdown and the metrics
EnhancedRelease(release, with_details) ==
    LET enhanced_cves == enhance_cve_dict(release.CVEs, with_details)
        components == { enhanced_cves[c].component : c \in DOMAIN enhanced_cves }
    IN  [CVEs |-> enhanced_cves,
         ComponentBreakdown |->
             [component \in components |->
                 [cves |-> { c \in DOMAIN enhanced_cves :
                               enhanced_cves[c].component = component },
                  exploited |-> { c \in DOMAIN enhanced_cves :
                                    /\ enhanced_cves[c].component = component
                                    /\ enhanced_cves[c].is_exploited }]],
         CVEMetrics |-> [total |-> Cardinality(DOMAIN enhanced_cves),
                         exploited |-> Len(release.ActivelyExploitedCVEs),
                         components_affected |-> Cardinality(components)]]
        @@ release

\* One OSVersions entry of the v2 feed
EnhancedVersion(os_version, with_details) ==
    LET releases == [i \in DOMAIN os_version.SecurityReleases |->
                        EnhancedRelease(os_version.SecurityReleases[i], with_details)]
    IN  [OSVersion |-> os_version.OSVersion,
         Latest |-> enhance_latest(os_version.Latest, with_details),
         SecurityReleases |-> releases,
         Statistics |-> [total_releases |-> Len(releases)]]

\* V2EnhancedFeedBuilder.create_v2_enhanced_feed: the OSVersions of the v2 feed
create_v2_enhanced_feed(os_type, releases, gdmf_data, kev, with_details) ==
    LET v1_feed == create_legacy_feed(os_type, releases, gdmf_data, kev)
    IN  [i \in DOMAIN v1_feed |-> EnhancedVersion(v1_feed[i], with_details)]

\* create_legacy_feed on the scraped data of one OS
CreateLegacyFeed(os_type, releases, gdmf_data, kev) ==
    /\ feed_out' = [op |-> "create_legacy_feed", os_type |-> os_type, releases |-> releases,
                    gdmf_data |-> gdmf_data, kev |-> kev,
                    OSVersions |-> create_legacy_feed(os_type, releases, gdmf_data, kev)]
    /\ UNCHANGED <<kev_vars, cache_vars, pipe_vars, gdmf_vars, emit_vars, hist_vars>>

\* build_safari_feed on cache/scraped_data.json
BuildSafariFeed(releases, kev) ==
    /\ feed_out' = [op |-> "build_safari_feed", releases |-> releases, kev |-> kev,
                    feed |-> build_safari_feed(releases, kev)]
    /\ UNCHANGED <<kev_vars, cache_vars, pipe_vars, gdmf_vars, emit_vars, hist_vars>>

\* The value of a call of create_v2_enhanced_feed on the enriched releases
V2Call(os_type, enriched, gdmf_data, kev, with_details) ==
    [op |-> "create_v2_enhanced_feed", os_type |-> os_type,
     releases |-> enriched, gdmf_data |-> gdmf_data, kev |-> kev,
     OSVersions |-> create_v2_enhanced_feed(os_type, enriched, gdmf_data, kev, with_details)]

\* The KEV enricher writes <os>.json, then create_v2_enhanced_feed reads it
CreateV2Feed(os_type, releases, gdmf_data, kev, with_details, known) ==
    /\ feed_out' = V2Call(os_type,
                          [i \in DOMAIN releases |->
                              SmartKevEnriched(releases[i], known, kev, os_type)],
                          gdmf_data, kev, with_details)
    /\ UNCHANGED <<kev_vars, cache_vars, pipe_vars, gdmf_vars, emit_vars, hist_vars>>

\* The manifests given to _find_gdmf_match, and the smaller ones given to the
\* builders that also take releases
Manifests == GdmfInputs(MaxAssets)

SmallManifests == GdmfInputs(MaxAssets - 1)

TinyManifests == GdmfInputs(1)

FeedOsTypes == {"macOS", "iOS"}

FeedNext ==
    \/ /\ NoFeedCallYet
       /\ \E os_key \in OsKeys, version \in GdmfVersions, gdmf_data \in Manifests :
             FindGdmfMatch(os_key, version, gdmf_data)
    \/ /\ NoFeedCallYet
       /\ \E os_type \in OsKeys, releases \in ScrapedData, gdmf_data \in SmallManifests :
             EnrichWithGdmf(os_type, releases, gdmf_data)
    \/ /\ NoFeedCallYet
       /\ \E version \in GdmfVersions, gdmf_data \in SmallManifests :
             FindGdmfDevices(version, gdmf_data)
    \/ /\ NoFeedCallYet
       /\ \E os_type \in FeedOsTypes, releases \in ScrapedData, gdmf_data \in SmallManifests,
             kev \in SUBSET CVEs :
             CreateLegacyFeed(os_type, releases, gdmf_data, kev)
    \/ /\ NoFeedCallYet
       /\ \E releases \in SafariScrapedData, kev \in SUBSET CVEs :
             BuildSafariFeed(releases, kev)
    \/ /\ NoFeedCallYet
       /\ \E os_type \in FeedOsTypes, releases \in ScrapedData, gdmf_data \in TinyManifests,
             kev \in SUBSET CVEs, with_details \in SUBSET {"CVE-2024-44308"},
             known_on \in SUBSET Platforms :
             CreateV2Feed(os_type, releases, gdmf_data, kev, with_details,
                          LoadedPatterns("CVE-2024-44308", known_on))

(***************************************************************************)
(* The GDMF client (fetchers/fetch_gdmf.py)                                *)
(***************************************************************************)
\* GDMFClient.CACHE_DURATION, in hours
CACHE_DURATION == 6

\* The clock advances in steps of GdmfTick hours up to MaxGdmfClock
GdmfTick == 3

MaxGdmfClock == 12

\* ETag header values of the GDMF endpoint; "" is a response without ETag
GdmfEtags == {"", "etag-1", "etag-2"}

\* The manifests the endpoint can serve
GdmfBodies == {"manifest-1", "manifest-2"}

\* gdmf_cached.json is absent
NoGdmfCacheFile == [exists |-> FALSE, etag |-> "", data |-> "", fetched_at |-> 0, mtime |-> 0]

\* The age of the cache file: now minus its mtime
cache_age(cache, now) == now - cache.mtime

\* GDMFClient.is_cache_valid: the file exists (save_to_cache always writes
\* the etag and data fields) and is not older than CACHE_DURATION
is_cache_valid(cache, now) ==
    /\ cache.exists
    /\ ~(cache_age(cache, now) > CACHE_DURATION)

\* GDMFClient.save_to_cache: the file is rewritten, its mtime is now
save_to_cache(data, now) ==
    [exists |-> TRUE, etag |-> data.etag, data |-> data.data,
     fetched_at |-> data.fetched_at, mtime |-> now]

\* The content of the cache file as json.load returns it
cached_json(cache) ==
    [etag |-> cache.etag, data |-> cache.data, fetched_at |-> cache.fetched_at]

\* fetch_from_api sends If-None-Match when the cache file holds an etag
SendsIfNoneMatch(cache) == cache.exists /\ cache.etag # ""

\* The responses of the endpoint to one request: 200 with a body and an
\* ETag, 304 to a conditional request, or a failure (RequestException)
GdmfResponses(cache) ==
    { [status |-> 200, etag |-> e, body |-> b] : e \in GdmfEtags, b \in GdmfBodies }
    \cup (IF SendsIfNoneMatch(cache) THEN { [status |-> 304, etag |-> "", body |-> ""] } ELSE {})
    \cup { [status |-> 0, etag |-> "", body |-> ""] }

\* GDMFClient.fetch_from_api on a response that is not a failure
fetch_from_api(cache, response, now) ==
    IF response.status = 304 THEN cached_json(cache)
    ELSE [etag |-> response.etag, data |-> response.body, fetched_at |-> now]

\* What fetch hands back: the manifest, where it came from and the age of
\* the cache file it was read from (0 for a manifest just fetched)
GdmfResult(source, data, age) ==
    [source |-> source, etag |-> data.etag, data |-> data.data, age |-> age]

GdmfInit ==
    /\ gdmfCache = NoGdmfCacheFile
    /\ gdmfClock = 0
    /\ gdmf_out = [source |-> "none"]

\* GDMFClient.fetch, the cache is valid and no refresh is forced
FetchGdmfFromCache(force_refresh) ==
    /\ ~force_refresh
    /\ is_cache_valid(gdmfCache, gdmfClock)
    /\ gdmf_out' = GdmfResult("valid_cache", cached_json(gdmfCache),
                              cache_age(gdmfCache, gdmfClock))
    /\ UNCHANGED <<gdmfCache, gdmfClock>>
    /\ UNCHANGED <<kev_vars, cache_vars, pipe_vars, feed_vars, emit_vars, hist_vars>>

\* GDMFClient.fetch, the request is answered: the result is saved and returned
FetchGdmfFromApi(force_refresh, response) ==
    /\ force_refresh \/ ~is_cache_valid(gdmfCache, gdmfClock)
    /\ response \in GdmfResponses(gdmfCache)
    /\ response.status # 0
    /\ LET data == fetch_from_api(gdmfCache, response, gdmfClock)
       IN  /\ gdmfCache' = save_to_cache(data, gdmfClock)
           /\ gdmf_out' = GdmfResult("api", data, 0)
    /\ UNCHANGED gdmfClock
    /\ UNCHANGED <<kev_vars, cache_vars, pipe_vars, feed_vars, emit_vars, hist_vars>>

\* GDMFClient.fetch, the request fails: the cache file is returned whenever
\* it exists, the exception is raised again otherwise
FetchGdmfFails(force_refresh) ==
    /\ force_refresh \/ ~is_cache_valid(gdmfCache, gdmfClock)
    /\ gdmf_out' = IF gdmfCache.exists
                   THEN GdmfResult("stale_cache", cached_json(gdmfCache),
                                   cache_age(gdmfCache, gdmfClock))
                   ELSE [source |-> "raised"]
    /\ UNCHANGED <<gdmfCache, gdmfClock>>
    /\ UNCHANGED <<kev_vars, cache_vars, pipe_vars, feed_vars, emit_vars, hist_vars>>

\* Time passes between two calls
GdmfTime ==
    /\ gdmfClock + GdmfTick <= MaxGdmfClock
    /\ gdmfClock' = gdmfClock + GdmfTick
    /\ UNCHANGED <<gdmfCache, gdmf_out>>
    /\ UNCHANGED <<kev_vars, cache_vars, pipe_vars, feed_vars, emit_vars, hist_vars>>

GdmfNext ==
    \/ \E force_refresh \in BOOLEAN : FetchGdmfFromCache(force_refresh)
    \/ \E force_refresh \in BOOLEAN, response \in GdmfResponses(gdmfCache) :
          FetchGdmfFromApi(force_refresh, response)
    \/ \E force_refresh \in BOOLEAN : FetchGdmfFails(force_refresh)
    \/ GdmfTime

(***************************************************************************)
(* The feed post-processor (processors/postprocess_feeds.py)               *)
(***************************************************************************)
\* Longest feed handed to the post-processor
MaxPostReleases == 3

\* Values of retention.last_n in config/pinned.json
MaxLastN == 3

\* Python's None for an optional date and an optional integer
NoDate == 0

NoInt == 0 - 1

\* The titles of the releases, in the order of Python's str comparison
TitlesAscending == <<"iOS 16.6", "iOS 16.7.10", "iOS 17.5", "iOS 18.0", "iOS 18.1", "iOS update">>

TitleRank(title) == CHOOSE i \in DOMAIN TitlesAscending : TitlesAscending[i] = title

\* release_date texts as day numbers: << >> is a missing or unparseable
\* text, <<d>> a text dateparser reads as day d
parse_release_date(text) == IF text = << >> THEN NoDate ELSE text[1]

\* Entries of security_releases/ios.json
PostReleases ==
    { [title |-> "iOS 18.1", version |-> VersionString(<<18, 1>>), build |-> "22B83", release_date |-> <<30>>],
      [title |-> "iOS 18.0", version |-> VersionString(<<18, 0>>), build |-> "22A3354", release_date |-> <<20>>],
      [title |-> "iOS 17.5", version |-> VersionString(<<17, 5>>), build |-> "21F79", release_date |-> <<20>>],
      [title |-> "iOS 16.7.10", version |-> VersionString(<<16, 7, 10>>), build |-> "20H350", release_date |-> <<10>>],
      [title |-> "iOS 16.6", version |-> VersionString(<<16, 6>>), build |-> "20G75", release_date |-> << >>],
      [title |-> "iOS update", version |-> << >>, build |-> "", release_date |-> <<30>>] }

PostFeeds == UNION { [1..k -> PostReleases] : k \in 0..MaxPostReleases }

\* PinnedSpec values; an empty field is None
PinnedSpecs ==
    { [pinned_version |-> << >>, pinned_build |-> ""],
      [pinned_version |-> VersionString(<<16, 7, 10>>), pinned_build |-> ""],
      [pinned_version |-> << >>, pinned_build |-> "20H350"] }

\* RetentionPolicy values.  _to_retention_policy takes the mode as the
\* configuration file spells it: "last_n" stands for any text that is none
\* of the three modes
RetentionPolicies ==
    { [mode |-> "all", last_n |-> 2, allow_pins_outside_window |-> FALSE, majors |-> << >>] }
    \cup { [mode |-> "last_n", last_n |-> 2, allow_pins_outside_window |-> a, majors |-> << >>] :
             a \in BOOLEAN }
    \cup { [mode |-> "last_n_major", last_n |-> n, allow_pins_outside_window |-> a, majors |-> << >>] :
             n \in 1..MaxLastN, a \in BOOLEAN }
    \cup { [mode |-> "whitelist", last_n |-> 2, allow_pins_outside_window |-> a, majors |-> m] :
             a \in BOOLEAN, m \in { << >>, <<17>> } }

\* major_of: the integer of the leading digits of the version, after any
\* blanks; None (NoInt) for a missing version or one that starts otherwise
major_of(version) ==
    LET RECURSIVE SkipBlanks(_), Digits(_, _)
        SkipBlanks(i) == IF i <= Len(version) /\ version[i] = 32 THEN SkipBlanks(i + 1) ELSE i
        Digits(i, acc) ==
            IF i <= Len(version) /\ version[i] >= 48 /\ version[i] <= 57
            THEN Digits(i + 1, 10 * acc + (version[i] - 48))
            ELSE acc
        start == SkipBlanks(1)
    IN  IF version = << >> THEN NoInt
        ELSE IF start <= Len(version) /\ version[start] >= 48 /\ version[start] <= 57
             THEN Digits(start, 0)
             ELSE NoInt

\* The pin flag set from the pinned version alone
WithDateAndPin_VersionOnly(r, pin) ==
    [title |-> r.title, version |-> r.version, build |-> r.build,
     release_date_iso |-> parse_release_date(r.release_date),
     is_pinned |-> (pin.pinned_version # << >> /\ r.version = pin.pinned_version),
     days_since_previous |-> NoInt]

\* enrich_feed, steps 1 and 2: the parsed date and the pin flag of a release
WithDateAndPin(r, pin) ==
    LET is_ver == pin.pinned_version # << >> /\ r.version = pin.pinned_version
        is_build == pin.pinned_build # "" /\ r.build = pin.pinned_build
    IN  [title |-> r.title, version |-> r.version, build |-> r.build,
         release_date_iso |-> parse_release_date(r.release_date),
         is_pinned |-> (is_ver \/ is_build),
         days_since_previous |-> NoInt]

\* The sort key of enrich_feed: (has a date, the date or date.min, title)
SortKeyLess(a, b) ==
    LET has_a == a.release_date_iso # NoDate
        has_b == b.release_date_iso # NoDate
    IN  \/ ~has_a /\ has_b
        \/ has_a = has_b /\ a.release_date_iso < b.release_date_iso
        \/ has_a = has_b /\ a.release_date_iso = b.release_date_iso
                         /\ TitleRank(a.title) < TitleRank(b.title)

\* list.sort(key=..., reverse=True): descending keys, entries of equal key
\* in their original order
SortByKeyReversed(releases) ==
    LET RECURSIVE Insert(_, _), Sort(_)
        Insert(sorted, r) ==
            IF sorted = << >> THEN <<r>>
            ELSE IF SortKeyLess(Head(sorted), r) THEN <<r>> \o sorted
            ELSE <<Head(sorted)>> \o Insert(Tail(sorted), r)
        Sort(i) == IF i = 0 THEN << >> ELSE Insert(Sort(i - 1), releases[i])
    IN  Sort(Len(releases))

\* enrich_feed, step 4: walking the sorted list, the days between the date
\* of the last dated release seen before and the date of this one
DaysSincePrevious(releases) ==
    LET RECURSIVE Walk(_, _)
        Walk(i, prev_date) ==
            IF i > Len(releases) THEN << >>
            ELSE LET r == releases[i]
                     days == IF r.release_date_iso # NoDate /\ prev_date # NoDate
                             THEN prev_date - r.release_date_iso
                             ELSE NoInt
                 IN  <<[r EXCEPT !.days_since_previous = days]>>
                     \o Walk(i + 1, IF r.release_date_iso # NoDate
                                    THEN r.release_date_iso ELSE prev_date)
    IN  Walk(1, NoDate)

enrich_feed(releases, pin) ==
    DaysSincePrevious(SortByKeyReversed([i \in DOMAIN releases |-> WithDateAndPin(releases[i], pin)]))

\* majors_present of apply_retention
MajorsPresent(entries) ==
    { major_of(entries[i].version) : i \in DOMAIN entries } \ {NoInt}

\* The slice of the majors sorted in ascending order: the smallest majors
TopMajors_Smallest(majors_present, last_n) ==
    LET n == IF last_n = 0 THEN 2 ELSE last_n
        k == IF n < 1 THEN 1 ELSE n
    IN  { m \in majors_present : Cardinality({ x \in majors_present : x < m }) < k }

\* sorted(majors_present, reverse=True)[: max(1, int(last_n or 2))]
TopMajors(majors_present, last_n) ==
    LET n == IF last_n = 0 THEN 2 ELSE last_n
        k == IF n < 1 THEN 1 ELSE n
    IN  { m \in majors_present : Cardinality({ x \in majors_present : x > m }) < k }

apply_retention(entries, policy) ==
    IF policy.mode = "all" THEN entries
    ELSE IF policy.mode = "last_n_major"
    THEN LET top_majors == TopMajors(MajorsPresent(entries), policy.last_n)
         IN  SelectSeq(entries, LAMBDA r :
                 \/ major_of(r.version) # NoInt /\ major_of(r.version) \in top_majors
                 \/ policy.allow_pins_outside_window /\ r.is_pinned)
    ELSE IF policy.mode = "whitelist"
    THEN SelectSeq(entries, LAMBDA r :
                 \/ major_of(r.version) \in SeqToSet(policy.majors)
                 \/ policy.allow_pins_outside_window /\ r.is_pinned)
    ELSE << >>

\* build_combined: latest[os] is the first release of the feed, None (an
\* empty tuple) for an empty feed
CombinedLatest(releases) == IF releases = << >> THEN << >> ELSE releases[1]

\* main, for one feed file: enrich_feed, then apply_retention, then the
\* combined feed's latest entry
PostprocessFeed(releases, pin, policy) ==
    /\ LET enriched == enrich_feed(releases, pin)
           filtered == apply_retention(enriched, policy)
       IN  feed_out' = [op |-> "postprocess", input |-> releases, pin |-> pin,
                        policy |-> policy, enriched |-> enriched,
                        releases |-> filtered, latest |-> CombinedLatest(filtered)]
    /\ UNCHANGED <<kev_vars, cache_vars, pipe_vars, gdmf_vars, emit_vars, hist_vars>>

(***************************************************************************)
(* Feed builders: CompleteFeedBuilder._calculate_days_since_previous       *)
(***************************************************************************)
\* SecurityReleases entries of one OSVersion as create_legacy_feed appends
\* them; ReleaseDate << >> is "", "Unknown" or a text no format parses
DatedReleases ==
    { [ProductVersion |-> <<15, 3>>, ReleaseDate |-> <<40>>, DaysSincePreviousRelease |-> 0],
      [ProductVersion |-> <<15, 2>>, ReleaseDate |-> <<30>>, DaysSincePreviousRelease |-> 0],
      [ProductVersion |-> <<15, 1>>, ReleaseDate |-> <<23>>, DaysSincePreviousRelease |-> 0],
      [ProductVersion |-> <<15, 0>>, ReleaseDate |-> <<10>>, DaysSincePreviousRelease |-> 0],
      [ProductVersion |-> <<15, 0, 1>>, ReleaseDate |-> << >>, DaysSincePreviousRelease |-> 0] }

\* The SecurityReleases lists: distinct releases, in any order
DatedReleaseLists ==
    { s \in UNION { [1..k -> DatedReleases] : k \in 0..MaxPostReleases } :
        \A i, j \in DOMAIN s : i # j => s[i] # s[j] }

\* dated_releases.sort(key=lambda x: x[1], reverse=True)
SortByDateReversed(dated_releases) ==
    LET RECURSIVE Insert(_, _), Sort(_)
        Insert(sorted, r) ==
            IF sorted = << >> THEN <<r>>
            ELSE IF parse_release_date(Head(sorted).ReleaseDate) < parse_release_date(r.ReleaseDate)
                 THEN <<r>> \o sorted
            ELSE <<Head(sorted)>> \o Insert(Tail(sorted), r)
        Sort(i) == IF i = 0 THEN << >> ELSE Insert(Sort(i - 1), dated_releases[i])
    IN  Sort(Len(dated_releases))

\* _calculate_days_since_previous: days_map, ProductVersion -> days; a
\* later assignment to the same key replaces the earlier one
calculate_days_since_previous(releases) ==
    LET dated == SortByDateReversed(
                    SelectSeq(releases, LAMBDA r : parse_release_date(r.ReleaseDate) # NoDate))
        Days(i) == IF i < Len(dated)
                   THEN parse_release_date(dated[i].ReleaseDate)
                        - parse_release_date(dated[i + 1].ReleaseDate)
                   ELSE 0
        LastIndexOf(v) == CHOOSE i \in DOMAIN dated :
                             /\ dated[i].ProductVersion = v
                             /\ \A j \in DOMAIN dated : dated[j].ProductVersion = v => j <= i
    IN  [v \in { dated[i].ProductVersion : i \in DOMAIN dated } |-> Days(LastIndexOf(v))]

\* create_legacy_feed: every release whose version is in days_map gets its
\* DaysSincePreviousRelease from it
WithDaysSincePrevious(releases) ==
    LET days_map == calculate_days_since_previous(releases)
    IN  [i \in DOMAIN releases |->
            IF releases[i].ProductVersion \in DOMAIN days_map
            THEN [releases[i] EXCEPT !.DaysSincePreviousRelease = days_map[releases[i].ProductVersion]]
            ELSE releases[i]]

CalculateDaysSincePrevious(releases) ==
    /\ feed_out' = [op |-> "_calculate_days_since_previous",
                    SecurityReleases |-> WithDaysSincePrevious(releases)]
    /\ UNCHANGED <<kev_vars, cache_vars, pipe_vars, gdmf_vars, emit_vars, hist_vars>>

PostNext ==
    \/ /\ NoFeedCallYet
       /\ \E releases \in PostFeeds, pin \in PinnedSpecs, policy \in RetentionPolicies :
             PostprocessFeed(releases, pin, policy)
    \/ /\ NoFeedCallYet
       /\ \E releases \in DatedReleaseLists : CalculateDaysSincePrevious(releases)

(***************************************************************************)
(* Feed emission: build_all_feeds, build_all_v2_enhanced_feeds and the     *)
(* beta feed of apple_os_releases_scraper.py                               *)
(***************************************************************************)
\* The clock of the emitting host advances up to MaxEmitClock
MaxEmitClock == 2

\* No file is written more than MaxFileWrites times in a behaviour
MaxFileWrites == 3

\* The OS type whose scraped file <os>.json is present
EmitOs == "macOS"

\* The files of the output tree
EmitFiles == {"macos_data_feed.json", "v1/macos_data_feed.json", "timestamp.json",
              "v1/timestamp.json", "v2/macos_data_feed_v2.json", "v2/manifest_v2.json",
              "v1/apple-beta-os-feed.json"}

\* The scraped data, the GDMF manifest and the KEV catalog the builders
\* read; exists is whether <os>.json is there
NoScrapedFile == [exists |-> FALSE, releases |-> << >>, gdmf_data |-> GDMFData(<< >>),
                  kev |-> {}, items |-> << >>]

EmitInputs ==
    LET r151 == ScrapedRelease("macOS Sequoia 15.1", <<15, 1>>, "22C10", <<"CVE-2025-24201">>, << >>)
        r152 == ScrapedRelease("macOS Sequoia 15.2", <<15, 2>>, "",
                               <<"CVE-2024-44308", "CVE-2025-24201">>, <<"CVE-2024-44308">>)
        gdmf == GDMFData(<<[asset |-> [ProductVersion |-> <<15, 2>>, Build |-> "22D50",
                                       ExpirationDate |-> "2025-06-01",
                                       SupportedDevices |-> <<"Mac1", "Mac2">>],
                            slot |-> <<"PublicAssetSets", "macOS">>]>>)
    IN  { [exists |-> TRUE, releases |-> <<r151>>, gdmf_data |-> gdmf,
           kev |-> {"CVE-2024-44308"}, items |-> <<"macOS 15.1 (22C10)">>],
          [exists |-> TRUE, releases |-> <<r152, r151>>, gdmf_data |-> gdmf,
           kev |-> {"CVE-2024-44308"}, items |-> <<"macOS 15.2 beta (22D50)", "macOS 15.1 (22C10)">>] }

\* A file that was never written, and the file after a write
NoFile == [exists |-> FALSE, content |-> << >>, writes |-> 0, built_from |-> NoScrapedFile]

Written(file, content, input) ==
    [exists |-> TRUE, content |-> content, writes |-> file.writes + 1, built_from |-> input]

\* _compute_hash: the SHA-256 of the JSON text of the data with sorted keys,
\* equal for equal data and for no other
compute_hash(data) == <<"sha256", data>>

\* A dict without some of its keys
WithoutKeys(obj, keys) == [k \in DOMAIN obj \ keys |-> obj[k]]

\* calculate_content_hash: the hash of the object without generated_at and
\* UpdateHash
calculate_content_hash(obj) == <<"sha256", WithoutKeys(obj, {"generated_at", "UpdateHash"})>>

\* create_legacy_feed, its last lines: {"UpdateHash": hash(feed), **feed}
LegacyFeedDocument(input) ==
    LET feed == [OSVersions |-> create_legacy_feed(EmitOs, input.releases, input.gdmf_data, input.kev)]
    IN  [UpdateHash |-> compute_hash(feed), OSVersions |-> feed.OSVersions]

\* create_v2_enhanced_feed: the v2 document; UpdateTimestamp is
\* v1_feed.get("UpdateTimestamp"), a key the v1 feed does not have
V2FeedDocument(input, now) ==
    [schema_version |-> "2.0", os_type |-> EmitOs, generated_at |-> now,
     UpdateTimestamp |-> "None",
     OSVersions |-> create_v2_enhanced_feed(EmitOs, input.releases, input.gdmf_data, input.kev, {})]

\* write_v2_manifest: the feeds of the v2 directory with their mtime
V2Manifest(now) ==
    [version |-> "2.0-enhanced", generated_at |-> now,
     feeds |-> <<[file |-> "macos_data_feed_v2.json", modified |-> now]>>]

\* write_timestamp: the entry of the OS type is replaced
TimestampData(old, hash_value, now) ==
    [os \in DOMAIN old \cup {EmitOs} |->
        IF os = EmitOs THEN [LastCheck |-> now, UpdateHash |-> hash_value] ELSE old[os]]

\* write_json_with_hash: the object with its content hash added
WithContentHash(obj) ==
    [generated_at |-> obj.generated_at, items |-> obj.items,
     UpdateHash |-> calculate_content_hash(obj)]

EmitInit ==
    /\ emitInput = NoScrapedFile
    /\ outFiles = [f \in EmitFiles |-> NoFile]
    /\ emitClock = 0

\* The Process stage writes scraped data that differs from the data on disk
ProcessWritesInput(input) ==
    /\ input # emitInput
    /\ emitInput' = input
    /\ UNCHANGED <<outFiles, emitClock>>
    /\ UNCHANGED <<kev_vars, cache_vars, pipe_vars, feed_vars, gdmf_vars, hist_vars>>

\* CompleteFeedBuilder.build_all_feeds with the scraped file of EmitOs
\* present: both feed files are written, then the timestamp and its copy
BuildAllFeeds ==
    /\ emitInput.exists
    /\ outFiles["macos_data_feed.json"].writes < MaxFileWrites
    /\ LET legacy_feed == LegacyFeedDocument(emitInput)
           old == IF outFiles["timestamp.json"].exists
                  THEN outFiles["timestamp.json"].content ELSE << >>
           timestamp_data == TimestampData(old, legacy_feed.UpdateHash, emitClock)
       IN  outFiles' = [outFiles EXCEPT
               !["macos_data_feed.json"] = Written(@, legacy_feed, emitInput),
               !["v1/macos_data_feed.json"] = Written(@, legacy_feed, emitInput),
               !["timestamp.json"] = Written(@, timestamp_data, emitInput),
               !["v1/timestamp.json"] = Written(@, timestamp_data, emitInput)]
    /\ UNCHANGED <<emitInput, emitClock>>
    /\ UNCHANGED <<kev_vars, cache_vars, pipe_vars, feed_vars, gdmf_vars, hist_vars>>

\* V2EnhancedFeedBuilder.build_all_v2_enhanced_feeds: the v2 feed, then the
\* manifest
BuildAllV2Feeds ==
    /\ emitInput.exists
    /\ outFiles["v2/macos_data_feed_v2.json"].writes < MaxFileWrites
    /\ outFiles' = [outFiles EXCEPT
            !["v2/macos_data_feed_v2.json"] = Written(@, V2FeedDocument(emitInput, emitClock), emitInput),
            !["v2/manifest_v2.json"] = Written(@, V2Manifest(emitClock), emitInput)]
    /\ UNCHANGED <<emitInput, emitClock>>
    /\ UNCHANGED <<kev_vars, cache_vars, pipe_vars, feed_vars, gdmf_vars, hist_vars>>

\* apple_os_releases_scraper.main: the current beta feed, written with its
\* content hash
WriteBetaFeed ==
    /\ emitInput.exists
    /\ outFiles["v1/apple-beta-os-feed.json"].writes < MaxFileWrites
    /\ outFiles' = [outFiles EXCEPT
            !["v1/apple-beta-os-feed.json"] =
                Written(@, WithContentHash([generated_at |-> emitClock, items |-> emitInput.items]),
                        emitInput)]
    /\ UNCHANGED <<emitInput, emitClock>>
    /\ UNCHANGED <<kev_vars, cache_vars, pipe_vars, feed_vars, gdmf_vars, hist_vars>>

\* Time passes between two runs
EmitTime ==
    /\ emitClock < MaxEmitClock
    /\ emitClock' = emitClock + 1
    /\ UNCHANGED <<emitInput, outFiles>>
    /\ UNCHANGED <<kev_vars, cache_vars, pipe_vars, feed_vars, gdmf_vars, hist_vars>>

EmitNext ==
    \/ \E input \in EmitInputs : ProcessWritesInput(input)
    \/ BuildAllFeeds
    \/ BuildAllV2Feeds
    \/ WriteBetaFeed
    \/ EmitTime

(***************************************************************************)
(* Release extraction: build_releases_from_cache of                        *)
(* build_security_releases.py and the ReleaseEntry validation of           *)
(* postprocess_feeds.py                                                    *)
(***************************************************************************)
\* At most MaxCveMatches matches of RE_CVE in the HTML of one detail page
MaxCveMatches == 3

\* Python's None in a version or build field
PyNone == "None"

\* The matches RE_CVE can find in a page: a CVE id is its year and its sequence
\* number, written in upper case or (RE_CVE is case-insensitive) in lower case
CveMatches ==
    { [year |-> 2024, seq |-> 44308, upper |-> TRUE],
      [year |-> 2024, seq |-> 44308, upper |-> FALSE],
      [year |-> 2024, seq |-> 9999,  upper |-> TRUE],
      [year |-> 2023, seq |-> 41064, upper |-> TRUE] }

\* RE_CVE.findall(text): the matches in the order of the text
CveMatchLists == UNION { [1..n -> CveMatches] : n \in 0..MaxCveMatches }

\* c.upper()
Upper(c) == [c EXCEPT !.upper = TRUE]

\* key=lambda s: (s.split("-")[1], int(s.split("-")[2])): the year (four
\* digits, so the order of the strings is the order of the numbers), then the
\* sequence number as an integer
CveKeyLess(a, b) == a.year < b.year \/ (a.year = b.year /\ a.seq < b.seq)

\* sorted(S, key=...) of a set of CVE ids with distinct keys
RECURSIVE SortedCves(_)
SortedCves(S) ==
    IF S = {} THEN << >>
    ELSE LET first == CHOOSE x \in S : \A y \in S : ~CveKeyLess(y, x)
         IN  <<first>> \o SortedCves(S \ {first})

\* The ids of a list in first-seen order, each once
RECURSIVE FirstSeen(_, _)
FirstSeen(ids, seen) ==
    IF ids = << >> THEN << >>
    ELSE IF Head(ids) \in seen THEN FirstSeen(Tail(ids), seen)
         ELSE <<Head(ids)>> \o FirstSeen(Tail(ids), seen \cup {Head(ids)})

extract_cves_from_text_Unsorted(found) ==
    FirstSeen([i \in DOMAIN found |-> Upper(found[i])], {})

\* extract_cves_from_text, of the matches RE_CVE finds in the text
extract_cves_from_text(found) ==
    SortedCves({ Upper(found[i]) : i \in DOMAIN found })

\* ReleaseEntry._validate_cves: every id stripped and upper-cased, kept when
\* it matches RE_CVE (every id here does) and was not seen before
validate_cves(v) ==
    FirstSeen([i \in DOMAIN v |-> Upper(v[i])], {})

\* OS_KEYS, for the two platforms of the model
OS_KEYS == [iOS |-> "ios", macOS |-> "macos"]

\* The mapped key of an os_type, PyNone for an os_type OS_KEYS does not hold
OsKeyOf(os_type) ==
    IF os_type \in DOMAIN OS_KEYS THEN OS_KEYS[os_type] ELSE PyNone

\* extract_version_from_title, on the titles of the model
extract_version_from_title(title) ==
    CASE title = "iOS 18.1 and iPadOS 18.1" -> "18.1"
      [] title = "Rapid Security Responses for iOS 16.5.1 (a)" -> "16.5.1"
      [] title = "Rapid Security Responses for iOS 16.5.1 (c)" -> "16.5.1"
      [] title = "macOS Sequoia 15.1" -> "15.1"
      [] OTHER -> PyNone

\* The rows parse_security_page stores for an index page; detail_url is
\* PyNone for a row without a link
IndexRows ==
    { [name |-> "iOS 18.1 and iPadOS 18.1", date |-> "28 Oct 2024",
       os_type |-> "iOS", detail_url |-> "/en-ca/121563"],
      [name |-> "Rapid Security Responses for iOS 16.5.1 (a)", date |-> "10 Jul 2023",
       os_type |-> "iOS", detail_url |-> "/en-ca/106392"],
      [name |-> "Rapid Security Responses for iOS 16.5.1 (c)", date |-> "12 Jul 2023",
       os_type |-> "iOS", detail_url |-> "/en-ca/106393"],
      [name |-> "macOS Sequoia 15.1", date |-> "28 Oct 2024",
       os_type |-> "macOS", detail_url |-> PyNone],
      [name |-> "Apple TV Software 7.2", date |-> "28 Oct 2024",
       os_type |-> "unknown", detail_url |-> PyNone] }

\* The parsed rows of the index pages of SECURITY_PAGE_URLS, two pages here
IndexPageLists ==
    LET pages == UNION { [1..n -> IndexRows] : n \in 0..1 }
    IN  [1..2 -> pages]

\* The detail pages Apple serves: the heading, the build RE_BUILD finds, and
\* the matches of RE_CVE in the visible text. The matches in the HTML of the
\* first page are an input of the run.
DetailPage(url, html_cves) ==
    CASE url = "/en-ca/121563" ->
            [title |-> "iOS 18.1 and iPadOS 18.1", build |-> "22B83",
             html_cves |-> html_cves, text_cves |-> html_cves]
      [] url = "/en-ca/106392" ->
            [title |-> "Rapid Security Responses for iOS 16.5.1 (a)", build |-> "20F770750b",
             html_cves |-> << >>,
             text_cves |-> <<[year |-> 2023, seq |-> 41064, upper |-> FALSE]>>]
      [] OTHER ->
            [title |-> "Rapid Security Responses for iOS 16.5.1 (c)", build |-> PyNone,
             html_cves |-> << >>, text_cves |-> << >>]

\* What the cache holds of the detail pages: for each, its parsed JSON, its
\* raw HTML only, or nothing
DetailCacheStates == {"parsed", "raw", "none"}

DetailCaches ==
    { [u \in {"/en-ca/121563", "/en-ca/106392", "/en-ca/106393"} |-> s] : s \in DetailCacheStates }
    \cup { [u \in {"/en-ca/121563", "/en-ca/106392", "/en-ca/106393"} |->
              IF u = "/en-ca/121563" THEN "parsed" ELSE "none"] }

\* parse_detail_page
parse_detail_page(url, page) ==
    LET from_html == extract_cves_from_text(page.html_cves)
        cves == IF from_html = << >> THEN extract_cves_from_text(page.text_cves)
                ELSE from_html
    IN  [title |-> page.title, url |-> url, release_date |-> "",
         version |-> extract_version_from_title(page.title),
         build |-> page.build, cve_count |-> Len(cves), cves |-> cves]

\* The basic info of a row whose detail page is not at hand
BasicInfo(release, url) ==
    [title |-> release.name, url |-> url, release_date |-> release.date,
     version |-> extract_version_from_title(release.name),
     build |-> PyNone, cve_count |-> 0, cves |-> << >>]

\* The entry build_releases_from_cache appends for one row
EntryOf(release, page_url, cache, fetch_missing, fetch_ok, html_cves) ==
    IF release.detail_url = PyNone THEN BasicInfo(release, page_url)
    ELSE LET url == release.detail_url
             parsed == parse_detail_page(url, DetailPage(url, html_cves))
         IN  CASE cache[url] = "parsed" -> parsed
               [] cache[url] = "raw" -> parsed
               [] OTHER -> IF fetch_missing /\ fetch_ok THEN parsed
                           ELSE BasicInfo(release, url)

\* The rows of all pages, in the order of the pages, each with its page
RECURSIVE RowsOfPages(_, _)
RowsOfPages(pages, n) ==
    IF n > Len(pages) THEN << >>
    ELSE [i \in DOMAIN pages[n] |-> [row |-> pages[n][i], page |-> n]]
            \o RowsOfPages(pages, n + 1)

\* build_releases_from_cache: per OS key, the entries of the rows of that
\* OS in the order of the pages; a row of an unknown os_type is skipped
build_releases_from_cache(pages, cache, fetch_missing, fetch_ok, html_cves) ==
    LET rows == RowsOfPages(pages, 1)
        entries(os_key) ==
            LET mine == SelectSeq(rows, LAMBDA r : OsKeyOf(r.row.os_type) = os_key)
            IN  [i \in DOMAIN mine |->
                    EntryOf(mine[i].row, mine[i].page, cache, fetch_missing,
                            fetch_ok, html_cves)]
    IN  [os_key \in {OS_KEYS[k] : k \in DOMAIN OS_KEYS} |-> entries(os_key)]

\* The ReleaseEntry objects OSFeed.model_validate makes of the written
\* entries: the cves of each pass _validate_cves
ReleaseEntries(releases) ==
    [i \in DOMAIN releases |->
        [releases[i] EXCEPT !.cves = validate_cves(releases[i].cves)]]

\* One run of build_security_releases.py over the cache, and the reading of
\* its output by postprocess_feeds.py
BuildReleasesFromCache(pages, cache, fetch_missing, fetch_ok, html_cves) ==
    LET per_os_releases ==
            build_releases_from_cache(pages, cache, fetch_missing, fetch_ok, html_cves)
    IN  /\ feed_out' = [op |-> "build_releases_from_cache",
                        html_cves |-> html_cves,
                        per_os_releases |-> per_os_releases,
                        entries |-> [os_key \in DOMAIN per_os_releases |->
                                        ReleaseEntries(per_os_releases[os_key])]]
        /\ UNCHANGED <<kev_vars, cache_vars, pipe_vars, gdmf_vars, emit_vars, hist_vars>>

ExtractNext ==
    /\ NoFeedCallYet
    /\ \E pages \in IndexPageLists, cache \in DetailCaches,
          fetch_missing \in BOOLEAN, fetch_ok \in BOOLEAN, html_cves \in CveMatchLists :
             BuildReleasesFromCache(pages, cache, fetch_missing, fetch_ok, html_cves)

(***************************************************************************)
(* One run of the builders over the platforms: main of                     *)
(* build_security_releases.py, then build_all_feeds                        *)
(***************************************************************************)
\* At most MaxRunReleases releases of one platform in a run
MaxRunReleases == 1

\* The releases build_releases_from_cache found for one platform
RunReleaseLists == UNION { [1..k -> ScrapedReleases] : k \in 0..MaxRunReleases }

\* security_releases/<os>.json is not there
NoReleasesFile == [exists |-> FALSE, releases |-> << >>]

\* The file an earlier run left for a platform, if any
PriorReleasesFiles ==
    {NoReleasesFile} \cup { [exists |-> TRUE, releases |-> rs] : rs \in RunReleaseLists \ {<< >>} }

\* main of build_security_releases.py: the file of a platform is written
\* when the platform has releases ("if releases:"), and stays as it was
\* otherwise
WriteSecurityReleases(per_os_releases, prior) ==
    [os_key \in DOMAIN per_os_releases |->
        IF per_os_releases[os_key] # << >>
        THEN [exists |-> TRUE, releases |-> per_os_releases[os_key]]
        ELSE prior[os_key]]

\* No feed file
NoFeedFile == [exists |-> FALSE]

\* build_all_feeds: for each OS type the scraped file is looked up; without
\* it the OS type is skipped ("continue"), with it the feed is written
FeedFilesOfRun(scraped_files, gdmf_data, kev) ==
    [os_type \in FeedOsTypes |->
        LET scraped_file == scraped_files[OS_KEYS[os_type]]
        IN  IF ~scraped_file.exists THEN NoFeedFile
            ELSE LET os_versions == create_legacy_feed(os_type, scraped_file.releases, gdmf_data, kev)
                 IN  [exists |-> TRUE,
                      UpdateHash |-> compute_hash([OSVersions |-> os_versions]),
                      OSVersions |-> os_versions]]

\* One run: the releases of the platforms are written, then the feeds built
RunBuilders(per_os_releases, prior) ==
    LET scraped_files == WriteSecurityReleases(per_os_releases, prior)
    IN  /\ feed_out' = [op |-> "build_all_feeds",
                        per_os_releases |-> per_os_releases,
                        prior |-> prior,
                        scraped_files |-> scraped_files,
                        feed_files |-> FeedFilesOfRun(scraped_files, GDMFData(<< >>), {})]
        /\ UNCHANGED <<kev_vars, cache_vars, pipe_vars, gdmf_vars, emit_vars, hist_vars>>

RunNext ==
    /\ NoFeedCallYet
    /\ \E per_os_releases \in [{"ios", "macos"} -> RunReleaseLists],
          prior \in [{"ios", "macos"} -> PriorReleasesFiles] :
             RunBuilders(per_os_releases, prior)

(***************************************************************************)
(* RSS: RSSFeedGenerator.generate_feed of generate_rss_feeds.py            *)
(***************************************************************************)
\* releases[:20], the releases of an OSVersion block that get an entry
RssReleaseLimit == 20

\* At most MaxRssReleases releases in an OSVersion block of the source feed
MaxRssReleases == 22

\* The decimal text of a number below 100
NumStr(n) ==
    LET digit == <<"0", "1", "2", "3", "4", "5", "6", "7", "8", "9">>
    IN  IF n < 10 THEN digit[n + 1] ELSE digit[(n \div 10) + 1] \o digit[(n % 10) + 1]

\* The i-th newest release of the OSVersion block of a major version, as
\* create_legacy_feed emits it: the minor versions and the days descend
RssRelease(major, n, i) ==
    [UpdateName |-> "", ProductVersion |-> NumStr(major) \o "." \o NumStr(n - i),
     ReleaseDate |-> "2024-01-" \o NumStr(n - i + 1)]

\* An OSVersion block with n releases: Latest is the newest of them, the one
\* SecurityReleases starts with, and the empty dict when there is none
RssBlock(major, n) ==
    [OSVersion |-> NumStr(major),
     Latest |-> IF n = 0 THEN EmptyDict ELSE RssRelease(major, n, 1),
     SecurityReleases |-> [i \in 1..n |-> RssRelease(major, n, i)]]

\* The source feeds: two OSVersion blocks
RssFeeds ==
    { [OSVersions |-> <<RssBlock(15, n1), RssBlock(14, n2)>>] :
         n1 \in 0..MaxRssReleases, n2 \in {0, 1, MaxRssReleases} }

\* _create_feed_entry: the id of the entry, f"{os_type}-{version}-{release_date}".
\* block is the OSVersion block the entry was made for.
create_feed_entry(release, os_type, block) ==
    [id |-> os_type \o "-" \o release.ProductVersion \o "-" \o release.ReleaseDate,
     title |-> IF release.UpdateName # "" THEN release.UpdateName
               ELSE os_type \o " " \o release.ProductVersion,
     block |-> block]

\* releases[:limit]
FirstN(releases, limit) ==
    SubSeq(releases, 1, IF Len(releases) < limit THEN Len(releases) ELSE limit)

\* The entries of one OSVersion block: the latest version if it has a
\* ProductVersion, then the first RssReleaseLimit releases that have one
BlockEntries(os_version, os_type, block) ==
    LET latest == os_version.Latest
        latest_entry == IF ~IsEmptyDict(latest) /\ latest.ProductVersion # ""
                        THEN <<create_feed_entry(latest, os_type, block)>> ELSE << >>
        shown == SelectSeq(FirstN(os_version.SecurityReleases, RssReleaseLimit),
                           LAMBDA r : r.ProductVersion # "")
    IN  latest_entry \o [i \in DOMAIN shown |-> create_feed_entry(shown[i], os_type, block)]

\* The entries of the channel, block after block
RECURSIVE ChannelEntries(_, _, _)
ChannelEntries(os_versions, os_type, block) ==
    IF block > Len(os_versions) THEN << >>
    ELSE BlockEntries(os_versions[block], os_type, block)
            \o ChannelEntries(os_versions, os_type, block + 1)

\* generate_feed: nothing is written when the cached hash of the feed is the
\* current one or when no entry was added
generate_feed(os_type, feed_data, up_to_date) ==
    LET entries == ChannelEntries(feed_data.OSVersions, os_type, 1)
    IN  IF up_to_date THEN [written |-> FALSE, entries |-> << >>]
        ELSE IF entries = << >> THEN [written |-> FALSE, entries |-> << >>]
        ELSE [written |-> TRUE, entries |-> entries]

\* One call of generate_feed on the feed file of an OS type
GenerateFeed(os_type, feed_data, up_to_date) ==
    /\ feed_out' = [op |-> "generate_feed", os_type |-> os_type, feed_data |-> feed_data,
                    channel |-> generate_feed(os_type, feed_data, up_to_date)]
    /\ UNCHANGED <<kev_vars, cache_vars, pipe_vars, gdmf_vars, emit_vars, hist_vars>>

RssNext ==
    /\ NoFeedCallYet
    /\ \E os_type \in FeedOsTypes, feed_data \in RssFeeds, up_to_date \in BOOLEAN :
          GenerateFeed(os_type, feed_data, up_to_date)

(***************************************************************************)
(* Beta history archive: merge_into_history of                             *)
(* apple_os_releases_scraper.py and merge_beta_history.py                  *)
(***************************************************************************)
\* At most MaxOffered items on the releases page, or in the source file of
\* merge_beta_history.py, in one run
MaxOffered == 2

\* The items a run can meet. The second is the first with a later date; the
\* third and the fourth differ in version and build and agree in
\* "version-build".
BetaItems ==
    { [platform |-> "iOS", version |-> "26 beta 5", build |-> "23A5308g", released |-> 2],
      [platform |-> "iOS", version |-> "26 beta 5", build |-> "23A5308g", released |-> 3],
      [platform |-> "iOS", version |-> "18", build |-> "1-x", released |-> 1],
      [platform |-> "iOS", version |-> "18-1", build |-> "x", released |-> 1],
      [platform |-> "macOS", version |-> "26 beta 5", build |-> "25A5338b", released |-> 2] }

BetaItemLists == UNION { [1..n -> BetaItems] : n \in 0..MaxOffered }

\* create_item_key of the scraper: f"{platform}:{version}:{build}"
create_item_key(item) == item.platform \o ":" \o item.version \o ":" \o item.build

\* create_item_key of merge_beta_history.py: f"{platform}-{version}-{build}"
merge_create_item_key(item) == item.platform \o "-" \o item.version \o "-" \o item.build

\* The place of (platform, version) in the order of the strings
PlatformVersionRank(item) ==
    CASE item.platform = "macOS" -> 3
      [] item.version = "26 beta 5" -> 2
      [] item.version = "18-1" -> 1
      [] OTHER -> 0

\* list.sort(key=..., reverse=True): descending keys, items of equal keys in
\* their original order
StableSortReversed(items, key) ==
    LET place(i) == 1 + Cardinality({ j \in DOMAIN items :
                                        key[j] > key[i] \/ (key[j] = key[i] /\ j < i) })
    IN  [p \in DOMAIN items |-> items[CHOOSE i \in DOMAIN items : place(i) = p]]

\* The offered items whose key is neither in the archive nor earlier in the
\* offer: "if key not in existing_keys: ...; existing_keys.add(key)"
RECURSIVE NewItems(_, _)
NewItems(offered, existing_keys) ==
    IF offered = << >> THEN << >>
    ELSE IF create_item_key(Head(offered)) \in existing_keys
         THEN NewItems(Tail(offered), existing_keys)
         ELSE <<Head(offered)>>
                 \o NewItems(Tail(offered), existing_keys \cup {create_item_key(Head(offered))})

RECURSIVE NewSourceItems(_, _)
NewSourceItems(source_items, existing_keys) ==
    IF source_items = << >> THEN << >>
    ELSE IF merge_create_item_key(Head(source_items)) \in existing_keys
         THEN NewSourceItems(Tail(source_items), existing_keys)
         ELSE <<Head(source_items)>>
                 \o NewSourceItems(Tail(source_items),
                                   existing_keys \cup {merge_create_item_key(Head(source_items))})

merge_into_history_KeepsAll(current_items, history_items) ==
    IF current_items = << >> THEN history_items
    ELSE LET all == history_items \o current_items
         IN  StableSortReversed(all, [i \in DOMAIN all |->
                                        all[i].released * 10 + PlatformVersionRank(all[i])])

\* merge_into_history: the new items are added and the archive is sorted by
\* (released, platform, version), newest first
merge_into_history(current_items, history_items) ==
    LET existing_keys == { create_item_key(history_items[i]) : i \in DOMAIN history_items }
        new_items == NewItems(current_items, existing_keys)
    IN  IF new_items = << >> THEN history_items
        ELSE LET all == history_items \o new_items
             IN  StableSortReversed(all, [i \in DOMAIN all |->
                                            all[i].released * 10 + PlatformVersionRank(all[i])])

\* merge_beta_history: every current item, then the source items whose key
\* is new, sorted by release date, newest first
merge_beta_history(current_items, source_items) ==
    LET existing_keys == { merge_create_item_key(current_items[i]) : i \in DOMAIN current_items }
        merged_items == current_items \o NewSourceItems(source_items, existing_keys)
    IN  StableSortReversed(merged_items, [i \in DOMAIN merged_items |-> merged_items[i].released])

HistInit == betaHistory = [exists |-> FALSE, items |-> << >>, offered |-> << >>]

\* main of the scraper without --no-history: the scraped items are merged
\* into the archive (empty when the file is not there) and the file written
ScrapeAndMerge(current_items) ==
    /\ betaHistory' = [exists |-> TRUE,
                       items |-> merge_into_history(current_items, betaHistory.items),
                       offered |-> current_items]
    /\ UNCHANGED <<kev_vars, cache_vars, pipe_vars, feed_vars, gdmf_vars, emit_vars>>

\* merge_beta_history.py on the archive and a source file; the script stops
\* when the archive is not there
MergeBetaHistory(source_items) ==
    /\ betaHistory.exists
    /\ betaHistory' = [exists |-> TRUE,
                       items |-> merge_beta_history(betaHistory.items, source_items),
                       offered |-> source_items]
    /\ UNCHANGED <<kev_vars, cache_vars, pipe_vars, feed_vars, gdmf_vars, emit_vars>>

HistNext ==
    \/ \E current_items \in BetaItemLists : ScrapeAndMerge(current_items)
    \/ \E source_items \in BetaItemLists : MergeBetaHistory(source_items)

(***************************************************************************)
(* Process stage: main of enrich_with_smart_kev.py over the platform files *)
(***************************************************************************)
\* A text no pattern matches
NoAppleText == [matches |-> {}, os |-> "iOS"]

\* The releases of the platform files: the CVEs listed, and what Apple's page
\* of the release says of them
ProcessReleases ==
    { [cves |-> cves, page_text |-> text] :
         cves \in ReleaseCveLists,
         text \in {NoAppleText, [matches |-> {1}, os |-> "iOS"]} }

\* The orders json_file in input_dir.glob("*.json") can take
ProcessOrders == { <<"iOS", "macOS">>, <<"macOS", "iOS">> }

ReleaseAppleText_FromPage(release) ==
    [has |-> release.page_text.matches # {}, text |-> release.page_text]

\* The apple_text enrich_release passes to the detector: None
ReleaseAppleText(release) == [has |-> FALSE, text |-> NoAppleText]

\* The loop of enrich_release over the CVEs of a release, with the
\* detector's apple_exploited as each call leaves it; r is the result of
\* get_exploitation_status for the CVE at i
RECURSIVE EnrichLoop(_, _, _, _, _, _)
RECURSIVE EnrichStep(_, _, _, _, _, _)
EnrichStep(r, kevs, release, platform, i, details) ==
    EnrichLoop(r.known, kevs, release, platform, i + 1,
               [details EXCEPT ![release.cves[i]] = r.info])

EnrichLoop(known, kevs, release, platform, i, details) ==
    IF i > Len(release.cves) THEN [known |-> known, details |-> details]
    ELSE EnrichStep(get_exploitation_status(known, kevs, release.cves[i],
                                            ReleaseAppleText(release).has,
                                            ReleaseAppleText(release).text, platform),
                    kevs, release, platform, i, details)

\* The fields enrich_release adds, from the details the loop collected
EnrichedRecord(done, warned, release, platform) ==
    [known |-> done.known,
     enriched |->
        [platform |-> platform, cves |-> release.cves,
         actively_exploited_cves |->
             SelectCves(release.cves, done.details, IsActivelyExploited),
         cisa_kevs |-> SelectCves(release.cves, done.details, IsCisaKev),
         cross_platform_exploitation_warnings |->
             [i \in DOMAIN warned |->
                 [cve |-> warned[i], note |-> done.details[warned[i]].notes]],
         exploitation_details |-> done.details]]

WithWarned(done, release, platform) ==
    EnrichedRecord(done, SelectCves(release.cves, done.details, IsCrossPlatformWarning),
                   release, platform)

\* process_security_releases_file on the file of a platform: the enriched
\* release, and the detector's apple_exploited afterwards
process_security_releases_file(known, kevs, release, platform) ==
    WithWarned(EnrichLoop(known, kevs, release, platform, 1,
                          [c \in SeqToSet(release.cves) |-> EmptyInfo(c, platform)]),
               release, platform)

\* main: the files are processed one after the other by the one enricher;
\* r is the result of process_security_releases_file for the file at i
RECURSIVE ProcessFiles(_, _, _, _, _, _)
RECURSIVE ProcessFilesStep(_, _, _, _, _, _)
ProcessFilesStep(r, kevs, order, files, i, records) ==
    ProcessFiles(r.known, kevs, order, files, i + 1,
                 [records EXCEPT ![order[i]] = r.enriched])

ProcessFiles(known, kevs, order, files, i, records) ==
    IF i > Len(order) THEN [known |-> known, records |-> records]
    ELSE ProcessFilesStep(process_security_releases_file(known, kevs, files[order[i]],
                                                         order[i]),
                          kevs, order, files, i, records)

\* The enriched release of every platform after a run over the files in
\* the given order
EnrichedOfRun(known, kevs, order, files) ==
    ProcessFiles(known, kevs, order, files, 1, [p \in SeqToSet(order) |-> << >>])

\* load_apple_patterns, while the enricher is constructed
LoadBeforeProcessing(cve, platforms) ==
    /\ kev_out.op # "enrich_main"
    /\ LoadApplePattern(cve, platforms)

\* What a run leaves: the detector's state and the enriched files
RecordRun(run, order, files) ==
    /\ apple_exploited' = run.known
    /\ kev_out' = [op |-> "enrich_main", loaded |-> apple_exploited,
                   order |-> order, files |-> files, records |-> run.records]

\* main of enrich_with_smart_kev.py: one run over the platform files
ProcessSecurityReleases(order, files) ==
    /\ kev_out.op # "enrich_main"
    /\ RecordRun(EnrichedOfRun(apple_exploited, cisa_kevs, order, files), order, files)
    /\ UNCHANGED cisa_kevs
    /\ UNCHANGED <<cache_vars, pipe_vars, feed_vars, gdmf_vars, emit_vars, hist_vars>>

ProcessNext ==
    \/ \E c \in CVEs, ps \in (SUBSET Platforms) \ {{}} : LoadBeforeProcessing(c, ps)
    \/ \E order \in ProcessOrders, files \in [Platforms -> ProcessReleases] :
          ProcessSecurityReleases(order, files)

(***************************************************************************)
(* Specifications                                                          *)
(***************************************************************************)
Init ==
    KevInit /\ CacheInit /\ PipeInit /\ FeedInit /\ GdmfInit /\ EmitInit /\ HistInit

\* The initial state with an empty CISA catalog
InitNoKev == Init /\ cisa_kevs = {}

Next ==
    KevNext \/ CacheConcNext \/ PipeNext \/ FeedNext \/ GdmfNext \/ PostNext \/ EmitNext
        \/ ExtractNext \/ RunNext \/ RssNext \/ HistNext \/ ProcessNext

Spec == Init /\ [][Next]_vars

\* The KEV detector and enricher alone
SpecKev == Init /\ [][KevNext]_vars

\* The page cache used by one fetching process
SpecCache == InitNoKev /\ [][CacheNext]_vars

\* The page cache used by two fetching processes at once
SpecCacheConc == InitNoKev /\ [][CacheConcNext]_vars

\* The two orchestrators, one run of either
SpecPipe == InitNoKev /\ [][PipeNext]_vars

\* The feed builders, one call
SpecFeed == InitNoKev /\ [][FeedNext]_vars

\* The GDMF client, successive calls of fetch
SpecGdmf == InitNoKev /\ [][GdmfNext]_vars

\* The post-processor and the days-since-previous computation, one call
SpecPost == InitNoKev /\ [][PostNext]_vars

\* The emission of the feeds, successive runs
SpecEmit == InitNoKev /\ [][EmitNext]_vars

\* The release extraction alone, one run of build_security_releases.py
SpecExtract == InitNoKev /\ [][ExtractNext]_vars

\* One run of the builders over the platforms
SpecRun == InitNoKev /\ [][RunNext]_vars

\* One call of the RSS generator
SpecRss == InitNoKev /\ [][RssNext]_vars

\* The beta history archive over successive scrape and merge runs
SpecHist == InitNoKev /\ [][HistNext]_vars

\* The Process stage: the patterns are loaded, then the platform files enriched
SpecProcess == Init /\ [][ProcessNext]_vars

(***************************************************************************)
(* Claims                                                                  *)
(***************************************************************************)

\* C1: every CVE in a platform's actively_exploited_cves list has, on that
\* platform, at least one of the sources apple_direct, apple_targeted,
\* apple_version_specific, cisa_kev; a CVE that only carries a cross-platform
\* warning is never in the platform-local list (for the policy module, which
\* keeps no sources: a listed CVE is exploited on this very platform).
C1_ExploitedHasLocalSource ==
    /\ kev_out.op = "enrich_release" =>
          /\ \A c \in SeqToSet(kev_out.actively_exploited_cves) :
                /\ SeqToSet(kev_out.exploitation_details[c].sources) \cap LocalSources # {}
                /\ SeqToSet(kev_out.exploitation_details[c].sources) # {"cross_platform"}
          /\ \A i \in DOMAIN kev_out.cross_platform_exploitation_warnings :
                ~InSeq(kev_out.cross_platform_exploitation_warnings[i].cve,
                       kev_out.actively_exploited_cves)
    /\ kev_out.op = "enrich_release_entry" =>
          /\ \A c \in SeqToSet(kev_out.actively_exploited_cves) :
                kev_out.platform \in kev_out.data[c].platforms
          /\ \A i \in DOMAIN kev_out.exploitation_warnings :
                ~InSeq(kev_out.exploitation_warnings[i].cve,
                       kev_out.actively_exploited_cves)

\* C1 witness: one release with an exploited CVE and a cross-platform warning
C1_Witness ==
    /\ kev_out.op = "enrich_release"
    /\ Len(kev_out.actively_exploited_cves) = 1
    /\ Len(kev_out.cross_platform_exploitation_warnings) = 1
    /\ Len(kev_out.cves) = 2


\* C2 (as stated): after a Get(u) with no force flags, a second Get(u) with no
\* force flags sends no request and returns a body identical to the first's.
\* Get is fetch_from_url.
C2_SecondGetSendsNothing ==
    \A p \in Procs :
        ( /\ call[p].pc = "done" /\ call[p].mode = "url"
          /\ ~call[p].force /\ ~call[p].verify
          /\ call[p].prior.mode = "url" /\ call[p].prior.noflags )
        => (call[p].reqs = << >> /\ call[p].body = call[p].prior.body)

\* C2 (amended): after a fetch of an index page with no force flags that saved
\* its parsed data, a second fetch with no force flags sends no request and
\* returns parsed data identical to the first's; fetch_from_url itself always
\* sends a request, and when that is answered 304 with cached content it
\* returns the cached body unchanged with was_modified = false.
C2_SecondFetchUsesParsedCache ==
    \A p \in Procs :
        /\ ( /\ call[p].pc = "done" /\ call[p].mode = "page"
             /\ ~call[p].force /\ ~call[p].verify
             /\ call[p].prior.mode = "page" /\ call[p].prior.noflags
             /\ call[p].prior.saved )
           => (call[p].reqs = << >> /\ call[p].data = call[p].prior.data)
        /\ (call[p].pc = "done" /\ call[p].mode = "url") => Len(call[p].reqs) >= 1
        /\ (call[p].pc = "done" /\ call[p].path = "not_modified")
           => ( /\ call[p].reqs = <<TRUE>>
                /\ ~call[p].was_modified
                /\ rawFile.state \in {"ok", "partial"}
                /\ call[p].body = rawFile.body )

\* C2 witness: a second fetch answered from the parsed cache
C2_Witness ==
    /\ call[1].pc = "done" /\ call[1].mode = "page" /\ call[1].path = "parsed_cache"
    /\ ~call[1].force /\ ~call[1].verify
    /\ call[1].prior.mode = "page" /\ call[1].prior.noflags /\ call[1].prior.saved

\* C3: when a 2xx response hashes to the stored content_hash and force_refresh
\* is not set, Get returns was_modified = false, no parsed data is written, and
\* the stored metadata timestamp is refreshed to the time of this Get.
C3_HashMatchRefreshesSeen ==
    \A p \in Procs :
        (call[p].pc = "done" /\ call[p].path = "hash_match")
        => ( /\ ~call[p].was_modified
             /\ "parsed" \notin call[p].wrote
             /\ metaFile.state = "ok"
             /\ metaFile.seen = call[p].started )

\* C4: a 304 to a conditional request when no raw content is cached makes
\* fetch_from_url send the request again without If-Modified-Since.
C4_RefetchWithoutCondition ==
    [][ \A p \in Procs :
          ( /\ call[p].pc = "request" /\ call[p].reqs[Len(call[p].reqs)]
            /\ call'[p].resp = "304" /\ call'[p] # call[p]
            /\ rawFile.state \notin {"ok", "partial"} )
          => ( /\ call'[p].pc = "request"
               /\ call'[p].reqs = Append(call[p].reqs, FALSE) ) ]_vars

\* C4 witness: a call that got 304 with nothing cached and asked again
C4_Witness ==
    call[1].pc = "request" /\ call[1].path = "refetch" /\ call[1].reqs = <<TRUE, FALSE>>

\* C5: on a network error, cached raw content (if any) is returned with
\* was_modified = false; with none cached the error propagates.
C5_ErrorFallsBackToCache ==
    [][ \A p \in Procs :
          (call[p].pc = "request" /\ call'[p].resp = "error")
          => IF rawFile.state \in {"ok", "partial"}
             THEN /\ call'[p].pc = "done"
                  /\ call'[p].body = rawFile.body
                  /\ ~call'[p].was_modified
                  /\ rawFile' = rawFile
             ELSE call'[p].pc = "raised" ]_vars

\* C5 witness: a call that returned the cached content after a network error
C5_Witness ==
    call[1].pc = "done" /\ call[1].path = "error_fallback" /\ call[1].body \in Bodies

\* C6: metadata and raw are rewritten together: no call writes only one of
\* the two, and once the concurrent writers have finished, the metadata and
\* the raw body are those of one (the last) writer.
C6_MetaAndRawTogether ==
    (\A p \in Procs : ~Active(p))
    => ( /\ \A p \in Procs : call[p].wrote \cap {"meta", "raw"} \in {{}, {"meta", "raw"}}
         /\ (metaFile.state = "ok" /\ rawFile.state = "ok")
            => metaFile.content_hash = ContentHash(rawFile.body) )

\* C7: a crash during a cache write never leaves a half-written raw or
\* metadata file in the cache.
C7_NoHalfWrittenEntry ==
    (\A p \in Procs : ~Active(p))
    => ( /\ metaFile.state \notin {"empty", "partial"}
         /\ rawFile.state \notin {"empty", "partial"} )

\* C8: with verify_content set, a call always sends a request to the origin,
\* also when the URL has a cached entry.
C8_VerifyAlwaysRequests ==
    \A p \in Procs :
        (call[p].pc \in {"done", "raised"} /\ call[p].verify) => Len(call[p].reqs) >= 1

\* C9: the orchestrator exits with 0 exactly when every stage it ran
\* succeeded, with 2 when a stage reported failure, and with 1 on a fatal
\* configuration error.
C9_ExitCodes ==
    /\ stage_run.pc = "exited"
       => LET failed == \E st \in {1, 2, 3} : stage_run.result[st] = "failed" IN
          /\ stage_run.exit = 0 <=> ~failed
          /\ failed => stage_run.exit = 2
    /\ cli_run.pc = "exited"
       => LET failed == \E i \in 1..Len(cli_run.results) : ~cli_run.results[i].success IN
          /\ failed => cli_run.exit = 2
          /\ cli_run.exit = 0 => ~failed

\* C10: a failed cache write during the fetch stage fails that stage, and the
\* run does not go on to produce the feeds.
C10_WriteFailureStopsRun ==
    stage_run.cache_write_failed
    => (stage_run.result[1] = "failed" /\ ~InSeq(3, stage_run.ran))

\* C11: in the fetch stage a failed fetcher is only warned: the stage is not
\* reported failed while at least one of its sources succeeded.
C11_FetcherFailureOnlyWarned ==
    /\ (stage_run.result[1] # "none"
        /\ \E c \in Stage1Commands :
              InSeq(c, stage_run.commands) /\ c \notin stage_run.failed
              /\ stage_run.ran[Len(stage_run.ran)] = 1)
       => stage_run.result[1] = "ok"
    /\ \A i \in 1..Len(cli_run.results) :
          (cli_run.results[i].stage = "gather"
           /\ cli_run.results[i].errors # gather_sources)
          => cli_run.results[i].success

\* C12: a CVE in the CISA KEV set is exploited on every platform it is
\* evaluated for, with cisa_kev among its sources and confidence high or
\* confirmed, also without Apple-text evidence; the release lists it as
\* actively exploited.
C12_CisaMemberIsExploited ==
    /\ (kev_out.op = "get_exploitation_status" /\ kev_out.cve \in cisa_kevs)
       => /\ kev_out.info.is_exploited
          /\ InSeq("cisa_kev", kev_out.info.sources)
          /\ kev_out.info.confidence \in {"high", "confirmed"}
    /\ kev_out.op = "enrich_release"
       => \A c \in SeqToSet(kev_out.cves) \cap cisa_kevs :
             /\ kev_out.exploitation_details[c].is_exploited
             /\ InSeq("cisa_kev", kev_out.exploitation_details[c].sources)
             /\ kev_out.exploitation_details[c].confidence \in {"high", "confirmed"}
             /\ InSeq(c, kev_out.actively_exploited_cves)
    /\ kev_out.op = "enrich_release_entry"
       => \A c \in SeqToSet(kev_out.cves) \cap DOMAIN kev_out.data :
             kev_out.data[c].in_cisa_kev => InSeq(c, kev_out.actively_exploited_cves)

\* C13: a CVE known exploited on other platforms only, evaluated on a platform
\* with no Apple-text match and no CISA membership, gives a record with
\* is_exploited = false, sources exactly <<cross_platform>>, confidence
\* medium and the note "Known exploited on:" naming the known platforms.
C13_CrossPlatformRecord ==
    LET Expected(info, c) ==
            /\ ~info.is_exploited
            /\ info.sources = <<"cross_platform">>
            /\ info.confidence = "medium"
            /\ info.notes.kind = "known_exploited_on"
            /\ info.notes.platforms = apple_exploited[c].affected_platforms
            /\ info.notes.platforms # {}
        Applies(c, platform) ==
            /\ c \notin cisa_kevs
            /\ c \in DOMAIN apple_exploited
            /\ platform \notin apple_exploited[c].affected_platforms
    IN  /\ (kev_out.op = "get_exploitation_status" /\ kev_out.text.matches = {}
            /\ Applies(kev_out.cve, kev_out.platform))
           => Expected(kev_out.info, kev_out.cve)
        /\ kev_out.op = "enrich_release"
           => \A c \in SeqToSet(kev_out.cves) :
                 Applies(c, kev_out.platform)
                 => Expected(kev_out.exploitation_details[c], c)

\* C13 witness: a cross-platform record returned for a text with no match
C13_Witness ==
    /\ kev_out.op = "get_exploitation_status"
    /\ kev_out.text.matches = {}
    /\ kev_out.cve \notin cisa_kevs
    /\ kev_out.info.sources = <<"cross_platform">>
    /\ kev_out.info.notes.platforms # {}

\* C14: a text that matches the "extremely sophisticated attack against
\* specific targeted individuals" pattern gives an ExploitationInfo with
\* is_exploited and is_targeted_attack set and apple_targeted among its
\* sources, whatever other patterns match the same text.
C14_TargetedSignalKept ==
    (kev_out.op = "get_exploitation_status" /\ 3 \in kev_out.text.matches)
    => /\ kev_out.info.is_exploited
       /\ kev_out.info.is_targeted_attack
       /\ InSeq("apple_targeted", kev_out.info.sources)

(***************************************************************************)
(* Claims on the GDMF merge                                                *)
(***************************************************************************)
\* The position of a build in the ascending order of the build strings
BuildRank(build) == CHOOSE i \in DOMAIN BuildsAscending : BuildsAscending[i] = build

\* The list is the ascending-sorted list of the distinct builds of the assets
IsSortedDistinctBuildsOf(all_builds, assets) ==
    /\ SeqToSet(all_builds) = { assets[i].Build : i \in DOMAIN assets } \ {""}
    /\ \A i, j \in DOMAIN all_builds :
          i < j => BuildRank(all_builds[i]) < BuildRank(all_builds[j])

\* C19: for a (platform, version) with several matching GDMF assets, AllBuilds
\* is the ascending-sorted list of the distinct Build values of the matching
\* assets, and the representative Build of the release, in the merged match
\* and in the release record enrich_with_gdmf writes, is the first entry of
\* that sorted AllBuilds.
C19_RepresentativeBuildIsFirstSorted ==
    /\ (feed_out.op = "_find_gdmf_match" /\ Len(feed_out.matches) >= 2) =>
          /\ IsSortedDistinctBuildsOf(feed_out.result.AllBuilds, feed_out.matches)
          /\ feed_out.result.AllBuilds # << >> =>
                feed_out.result.Build = feed_out.result.AllBuilds[1]
    /\ feed_out.op = "enrich_with_gdmf" =>
          \A i \in DOMAIN feed_out.releases :
             LET matches == MatchesToMerge(feed_out.os_type, feed_out.releases[i].version,
                                           feed_out.gdmf_data)
                 sorted == SortBuilds(CollectBuilds(matches))
             IN  (feed_out.releases[i].version # << >> /\ Len(matches) >= 2
                  /\ sorted # << >>) => feed_out.result[i].Build = sorted[1]

\* The list holds each element of all_devices once, in the order of the
\* first occurrences
IsFirstSeenOrderOf(devices, all_devices) ==
    LET first(d) == CHOOSE i \in DOMAIN all_devices :
                       all_devices[i] = d /\ \A j \in 1..(i - 1) : all_devices[j] # d
    IN  /\ SeqToSet(devices) = SeqToSet(all_devices)
        /\ \A i, j \in DOMAIN devices : i < j => first(devices[i]) < first(devices[j])

\* C20: the merged SupportedDevices of a release is the concatenation of the
\* matching GDMF assets' device lists in encounter order with every later
\* duplicate removed, in _find_gdmf_match and in the device consolidator's
\* _find_gdmf_devices.
C20_DevicesInFirstSeenOrder ==
    /\ (feed_out.op = "_find_gdmf_match" /\ feed_out.result.found) =>
          IsFirstSeenOrderOf(feed_out.result.SupportedDevices, AllDevices(feed_out.matches))
    /\ feed_out.op = "_find_gdmf_devices" =>
          IsFirstSeenOrderOf(feed_out.result, feed_out.collected)

(***************************************************************************)
(* Claims on the emitted feeds                                             *)
(***************************************************************************)
\* The records of the emitted feed that stand for a scraped release: the
\* SecurityReleases entries of its title and version
EmittedRecordsOf(os_versions, release) ==
    { r \in UNION { SeqToSet(os_versions[i].SecurityReleases) : i \in DOMAIN os_versions } :
        r.ProductVersion = release.version /\ r.UpdateName = release.title }

\* C15: a cross-platform warning produced for CVE X on platform P appears in
\* P's emitted v2 feed as an entry {cve: X, note: "Known exploited on: ..."}
\* of a distinct exploitation_warnings field of the release.
C15_WarningReachesV2Feed ==
    feed_out.op = "create_v2_enhanced_feed" =>
        \A i \in DOMAIN feed_out.releases :
           \A w \in SeqToSet(feed_out.releases[i].cross_platform_exploitation_warnings) :
              \A r \in EmittedRecordsOf(feed_out.OSVersions, feed_out.releases[i]) :
                 /\ "exploitation_warnings" \in DOMAIN r
                 /\ \E e \in SeqToSet(r.exploitation_warnings) :
                       e.cve = w.cve /\ e.note = w.note

\* Every per-CVE object of the SecurityReleases of a v2 feed
V2CveObjects(os_versions) ==
    LET releases == UNION { SeqToSet(os_versions[i].SecurityReleases) : i \in DOMAIN os_versions }
    IN  UNION { { r.CVEs[c] : c \in DOMAIN r.CVEs } : r \in releases }

\* C16: every per-CVE object in a v2 feed carries confidence and sources, and
\* for a CVE of the CISA KEV set the sources include "cisa_kev".
C16_V2CveCarriesConfidenceAndSources ==
    feed_out.op = "create_v2_enhanced_feed" =>
        \A o \in V2CveObjects(feed_out.OSVersions) :
           /\ "confidence" \in DOMAIN o
           /\ "sources" \in DOMAIN o
           /\ o.id \in feed_out.kev => InSeq("cisa_kev", o.sources)

\* The releases are in descending order of their parsed versions
IsNewestFirst(security_releases) ==
    \A i, j \in DOMAIN security_releases :
        i < j => ~VersionLess(security_releases[i].ProductVersion,
                              security_releases[j].ProductVersion)

\* Latest is the first of SecurityReleases: the same release, with the fields
\* both records carry equal
LatestIsFirst(latest, security_releases) ==
    IF security_releases = << >> THEN IsEmptyDict(latest)
    ELSE /\ ~IsEmptyDict(latest)
         /\ latest.ProductVersion = security_releases[1].ProductVersion

\* C17: in every OSVersion block of an emitted feed, SecurityReleases is
\* sorted newest-first and Latest is SecurityReleases[0], in the v1 feed of
\* create_legacy_feed and in the Safari feed.
C17_LatestIsNewestRelease ==
    /\ feed_out.op = "create_legacy_feed" =>
          \A i \in DOMAIN feed_out.OSVersions :
             /\ IsNewestFirst(feed_out.OSVersions[i].SecurityReleases)
             /\ LatestIsFirst(feed_out.OSVersions[i].Latest,
                              feed_out.OSVersions[i].SecurityReleases)
    /\ feed_out.op = "build_safari_feed" =>
          /\ IsNewestFirst(feed_out.feed.SecurityReleases)
          /\ LatestIsFirst(feed_out.feed.Latest, feed_out.feed.SecurityReleases)

\* The Build of a record is one of its AllBuilds
BuildInAllBuilds(record) ==
    /\ "Build" \in DOMAIN record
    /\ "AllBuilds" \in DOMAIN record
    /\ InSeq(record.Build, record.AllBuilds)

\* C18: for every emitted release record (Latest and every SecurityReleases
\* entry), its Build is a member of its AllBuilds; a release with no GDMF
\* match carries its own build only.
C18_BuildIsOneOfAllBuilds ==
    /\ feed_out.op = "create_legacy_feed" =>
          \A i \in DOMAIN feed_out.OSVersions :
             /\ ~IsEmptyDict(feed_out.OSVersions[i].Latest) =>
                   BuildInAllBuilds(feed_out.OSVersions[i].Latest)
             /\ \A r \in SeqToSet(feed_out.OSVersions[i].SecurityReleases) :
                   BuildInAllBuilds(r)
    /\ feed_out.op = "build_safari_feed" =>
          /\ ~IsEmptyDict(feed_out.feed.Latest) => BuildInAllBuilds(feed_out.feed.Latest)
          /\ \A r \in SeqToSet(feed_out.feed.SecurityReleases) : BuildInAllBuilds(r)

(***************************************************************************)
(* Claims on the GDMF client                                               *)
(***************************************************************************)
\* C21: when the fetch fails, the cached manifest GDMFClient falls back to
\* is no older than the stale window CACHE_DURATION (6 hours): the staleness
\* of a cache served after a failed fetch is bounded by that window.
C21_StaleFallbackWithinWindow ==
    gdmf_out.source = "stale_cache" => gdmf_out.age <= CACHE_DURATION

(***************************************************************************)
(* Claims on retention, pinning and ordering                               *)
(***************************************************************************)
\* The release is one of the releases the call emitted
Survives(r) == InSeq(r, feed_out.releases)

\* The major versions of the releases of the platform's stream
StreamMajors == { major_of(r.version) : r \in SeqToSet(feed_out.enriched) } \ {NoInt}

\* The major of the release is one of the n largest majors of the stream
AmongLargestMajors(r, n) ==
    /\ major_of(r.version) \in StreamMajors
    /\ Cardinality({ m \in StreamMajors : m > major_of(r.version) }) < n

ExplicitlyPinned(r, pin) ==
    \/ pin.pinned_version # << >> /\ r.version = pin.pinned_version
    \/ pin.pinned_build # "" /\ r.build = pin.pinned_build

\* The release is inside the retention window of the policy; a mode outside
\* the closed set defines no window to be outside of
InRetentionWindow(r, policy) ==
    CASE policy.mode = "all" -> TRUE
      [] policy.mode = "last_n_major" -> AmongLargestMajors(r, policy.last_n)
      [] policy.mode = "whitelist" -> major_of(r.version) \in SeqToSet(policy.majors)
      [] OTHER -> TRUE

C24_NewestByDateThenTitleAscending ==
    feed_out.op = "postprocess" =>
        \A i, j \in DOMAIN feed_out.enriched :
           LET a == feed_out.enriched[i]
               b == feed_out.enriched[j]
           IN  (i < j /\ a.release_date_iso # NoDate /\ b.release_date_iso # NoDate) =>
                  \/ a.release_date_iso > b.release_date_iso
                  \/ /\ a.release_date_iso = b.release_date_iso
                     /\ TitleRank(a.title) <= TitleRank(b.title)

(***************************************************************************)
(* Claims on DaysSincePreviousRelease                                      *)
(***************************************************************************)
\* In a list walked newest to oldest, the days of the release at i are
\* the days between its date and the date of the next-older dated release,
\* and 0 for the oldest
IsDaysSinceNextOlder(dates, days, i) ==
    LET older == { j \in DOMAIN dates : j > i /\ dates[j] # NoDate }
    IN  IF older = {} THEN days[i] = 0
        ELSE LET next == CHOOSE j \in older : \A k \in older : j <= k
             IN  days[i] = dates[i] - dates[next]

\* The SecurityReleases of the feed builder carry the days to the next-older
\* release
FeedBuilderDaysHold ==
    feed_out.op = "_calculate_days_since_previous" =>
          LET sorted == SortByDateReversed(feed_out.SecurityReleases)
              dates == [i \in DOMAIN sorted |-> parse_release_date(sorted[i].ReleaseDate)]
              days == [i \in DOMAIN sorted |-> sorted[i].DaysSincePreviousRelease]
          IN  \A i \in DOMAIN sorted :
                 dates[i] # NoDate => IsDaysSinceNextOlder(dates, days, i)

\* The releases of the post-processed feed carry the days to the next-older
\* release
PostprocessDaysHold ==
    feed_out.op = "postprocess" =>
          LET sorted == feed_out.enriched
              dates == [i \in DOMAIN sorted |-> sorted[i].release_date_iso]
              days == [i \in DOMAIN sorted |-> sorted[i].days_since_previous]
          IN  \A i \in DOMAIN sorted :
                 dates[i] # NoDate => IsDaysSinceNextOlder(dates, days, i)

\* C25: walking the releases newest to oldest, each release's
\* DaysSincePreviousRelease is the number of days between its release date
\* and the release date of the next-older release, and the oldest gets 0;
\* in the feed builder's SecurityReleases and in the post-processed feed.
C25_DaysSinceNextOlderRelease == FeedBuilderDaysHold /\ PostprocessDaysHold

(***************************************************************************)
(* Claims on the emitted files                                             *)
(***************************************************************************)
\* The files that hold a feed document
FeedDocumentFiles == {"macos_data_feed.json", "v1/macos_data_feed.json",
                      "v2/macos_data_feed_v2.json", "v1/apple-beta-os-feed.json"}

\* The hash recomputed over the document without UpdateHash and
\* generated_at is the UpdateHash the document stores
StoresItsContentHash(document) ==
    /\ "UpdateHash" \in DOMAIN document
    /\ document.UpdateHash = <<"sha256", WithoutKeys(document, {"UpdateHash", "generated_at"})>>

\* C26: for every emitted feed document D, v1 and v2, recomputing the hash
\* over D with its UpdateHash and generated_at fields removed yields
\* exactly the UpdateHash stored in D.
C26_UpdateHashIsContentHash ==
    \A f \in FeedDocumentFiles :
       outFiles[f].exists => StoresItsContentHash(outFiles[f].content)

\* The v1 documents and the beta feed alone
V1DocumentsStoreTheirHash ==
    \A f \in FeedDocumentFiles \ {"v2/macos_data_feed_v2.json"} :
       outFiles[f].exists => StoresItsContentHash(outFiles[f].content)

\* The files of the Emit stage; timestamp.json and its copy carry LastCheck
TimestampFiles == {"timestamp.json", "v1/timestamp.json"}

EmitStageFiles == EmitFiles \ {"v1/apple-beta-os-feed.json"}

\* The step writes the file again, from the inputs it was last built from
RewrittenFromSameInput(f) ==
    /\ outFiles[f].exists
    /\ outFiles'[f].writes > outFiles[f].writes
    /\ outFiles'[f].built_from = outFiles[f].built_from

\* C27: running Emit twice in succession on unchanged inputs leaves the
\* content of every output file byte-identical between the two runs,
\* except for timestamp.json.
C27_EmitTwiceSameContent ==
    [][\A f \in EmitStageFiles \ TimestampFiles :
          RewrittenFromSameInput(f) => outFiles'[f].content = outFiles[f].content]_vars

\* The v1 feed files alone
V1FilesSameContent ==
    [][\A f \in {"macos_data_feed.json", "v1/macos_data_feed.json"} :
          RewrittenFromSameInput(f) => outFiles'[f].content = outFiles[f].content]_vars

\* C28: with a warm cache and the network answering 304 the inputs of the
\* Emit stage are those of the previous run; the run rewrites no Emit-stage
\* file, advances LastCheck of timestamp.json and leaves UpdateHash
\* unchanged.
C28_UnchangedRunRewritesNothing ==
    [][(emitInput' = emitInput /\ outFiles["timestamp.json"].exists
        /\ outFiles["timestamp.json"].built_from = emitInput
        /\ outFiles'["timestamp.json"].writes > outFiles["timestamp.json"].writes) =>
          /\ \A f \in EmitStageFiles \ TimestampFiles :
                outFiles'[f].writes = outFiles[f].writes
          /\ outFiles'["timestamp.json"].content[EmitOs].LastCheck = emitClock
          /\ outFiles'["timestamp.json"].content[EmitOs].UpdateHash
                = outFiles["timestamp.json"].content[EmitOs].UpdateHash]_vars

\* The timestamp half of C28: LastCheck advances, UpdateHash stays
TimestampAdvancesHashStays ==
    [][(emitInput' = emitInput /\ outFiles["timestamp.json"].exists
        /\ outFiles["timestamp.json"].built_from = emitInput
        /\ outFiles'["timestamp.json"].writes > outFiles["timestamp.json"].writes) =>
          /\ outFiles'["timestamp.json"].content[EmitOs].LastCheck = emitClock
          /\ outFiles'["timestamp.json"].content[EmitOs].LastCheck
                >= outFiles["timestamp.json"].content[EmitOs].LastCheck
          /\ outFiles'["timestamp.json"].content[EmitOs].UpdateHash
                = outFiles["timestamp.json"].content[EmitOs].UpdateHash]_vars

(***************************************************************************)
(* Claims on the extracted release records                                 *)
(***************************************************************************)
\* No CVE id occurs twice in the list
NoDuplicateCves(cves) ==
    \A i, j \in DOMAIN cves : cves[i] = cves[j] => i = j

\* The list is in ascending order of (year, sequence number)
SortedByYearThenSequence(cves) ==
    \A i, j \in DOMAIN cves : i < j => ~CveKeyLess(cves[j], cves[i])

\* Every release record of the run: the entries build_releases_from_cache
\* made and the ReleaseEntry objects read back from them
AllReleaseRecords ==
    UNION { SeqToSet(feed_out.per_os_releases[k]) \cup SeqToSet(feed_out.entries[k]) :
               k \in DOMAIN feed_out.per_os_releases }

\* C29: every release record's cves list contains no duplicates and is sorted
\* by (year ascending, sequence number ascending).
C29_CvesAreSortedSet ==
    feed_out.op = "build_releases_from_cache" =>
        \A r \in AllReleaseRecords :
           /\ NoDuplicateCves(r.cves)
           /\ SortedByYearThenSequence(r.cves)
           /\ \A i \in DOMAIN r.cves : r.cves[i].upper

\* A record whose page named a CVE twice, once in lower case, and named its
\* CVEs out of order: three matches, two ids, the later id first
C29_Witness ==
    /\ feed_out.op = "build_releases_from_cache"
    /\ Len(feed_out.html_cves) = 3
    /\ CveKeyLess(feed_out.html_cves[2], feed_out.html_cves[1])
    /\ \E i \in DOMAIN feed_out.html_cves : ~feed_out.html_cves[i].upper
    /\ \E r \in AllReleaseRecords :
          /\ Len(r.cves) = 2
          /\ SeqToSet(r.cves) = { Upper(feed_out.html_cves[i]) : i \in DOMAIN feed_out.html_cves }

\* C30: within one platform, no two release records share the same
\* (Version, Build) pair.
C30_VersionBuildUniquePerPlatform ==
    feed_out.op = "build_releases_from_cache" =>
        \A k \in DOMAIN feed_out.per_os_releases :
           \A i, j \in DOMAIN feed_out.per_os_releases[k] :
              (/\ feed_out.per_os_releases[k][i].version = feed_out.per_os_releases[k][j].version
               /\ feed_out.per_os_releases[k][i].build = feed_out.per_os_releases[k][j].build)
                 => i = j

\* Two rows of one platform with different titles whose records carry the
\* same version and the same build
TwoReleasesOneVersionBuild ==
    /\ feed_out.op = "build_releases_from_cache"
    /\ \E i, j \in DOMAIN feed_out.per_os_releases["ios"] :
          /\ feed_out.per_os_releases["ios"][i].title # feed_out.per_os_releases["ios"][j].title
          /\ feed_out.per_os_releases["ios"][i].version = feed_out.per_os_releases["ios"][j].version
          /\ feed_out.per_os_releases["ios"][i].build = feed_out.per_os_releases["ios"][j].build

(***************************************************************************)
(* Claims on the run of the builders                                       *)
(***************************************************************************)
\* C31: a platform with zero surviving releases still gets a feed file
\* emitted, whose OSVersions is the empty list, rather than no file.
C31_EmptyPlatformGetsEmptyFeed ==
    feed_out.op = "build_all_feeds" =>
        \A os_type \in FeedOsTypes :
           feed_out.per_os_releases[OS_KEYS[os_type]] = << >> =>
              /\ feed_out.feed_files[os_type].exists
              /\ feed_out.feed_files[os_type].OSVersions = << >>

\* A platform that has releases in the run gets its feed file
PlatformWithReleasesGetsFeed ==
    feed_out.op = "build_all_feeds" =>
        \A os_type \in FeedOsTypes :
           feed_out.per_os_releases[OS_KEYS[os_type]] # << >> =>
              feed_out.feed_files[os_type].exists

\* A platform with no releases in the run and no file of an earlier run has
\* no feed file
EmptyPlatformHasNoFeedFile ==
    /\ feed_out.op = "build_all_feeds"
    /\ feed_out.per_os_releases["ios"] = << >>
    /\ ~feed_out.prior["ios"].exists
    /\ ~feed_out.feed_files["iOS"].exists

(***************************************************************************)
(* Claims on the RSS channels                                              *)
(***************************************************************************)
\* The entries of the channel made for one OSVersion block
EntriesOfBlock(block) ==
    SelectSeq(feed_out.channel.entries, LAMBDA e : e.block = block)

\* C32: each platform's RSS channel contains at most 20 items per OSVersion
\* block of the source feed.
C32_AtMostTwentyItemsPerBlock ==
    feed_out.op = "generate_feed" =>
        \A block \in DOMAIN feed_out.feed_data.OSVersions :
           Len(EntriesOfBlock(block)) <= 20

\* At most RssReleaseLimit security releases of a block get an entry, and
\* the latest version one more
AtMostLimitPlusLatest ==
    feed_out.op = "generate_feed" =>
        \A block \in DOMAIN feed_out.feed_data.OSVersions :
           Len(EntriesOfBlock(block)) <= RssReleaseLimit + 1

\* C40: within one generated RSS channel, no two items have the same guid
\* ("{platform}-{version}-{release_date}").
C40_GuidsAreUnique ==
    feed_out.op = "generate_feed" =>
        \A i, j \in DOMAIN feed_out.channel.entries :
           feed_out.channel.entries[i].id = feed_out.channel.entries[j].id => i = j

\* The entries made of the security releases alone carry distinct guids
ReleaseGuidsAreUnique ==
    feed_out.op = "generate_feed" =>
        \A i, j \in DOMAIN feed_out.channel.entries :
           (/\ feed_out.channel.entries[i].id = feed_out.channel.entries[j].id
            /\ i # j)
              => \E b \in DOMAIN feed_out.feed_data.OSVersions :
                    /\ feed_out.channel.entries[i].block = b
                    /\ feed_out.channel.entries[j].block = b
                    /\ (EntriesOfBlock(b)[1].id = feed_out.channel.entries[i].id)

(***************************************************************************)
(* Claims on the beta history archive                                      *)
(***************************************************************************)
\* The (platform, version, build) of an item
ItemIdentity(item) == <<item.platform, item.version, item.build>>

\* C33: after any sequence of scrape/merge runs, the persistent beta history
\* archive contains no two items with the same (platform, version, build).
C33_HistoryHasNoDuplicates ==
    \A i, j \in DOMAIN betaHistory.items :
        ItemIdentity(betaHistory.items[i]) = ItemIdentity(betaHistory.items[j]) => i = j

\* An archive of several items after a run that offered an item the archive
\* already held, with another release date
C33_Witness ==
    /\ Len(betaHistory.items) >= 3
    /\ \E i \in DOMAIN betaHistory.offered : \E j \in DOMAIN betaHistory.items :
          /\ ItemIdentity(betaHistory.offered[i]) = ItemIdentity(betaHistory.items[j])
          /\ betaHistory.offered[i].released # betaHistory.items[j].released

RunRecordsAreEnrichRelease ==
    kev_out.op = "enrich_main" =>
        \A p \in Platforms :
           LET e == enrich_release(kev_out.loaded, cisa_kevs, kev_out.files[p].cves, p)
           IN  /\ kev_out.records[p].actively_exploited_cves = e.actively_exploited_cves
               /\ kev_out.records[p].cross_platform_exploitation_warnings
                     = e.cross_platform_exploitation_warnings
               /\ kev_out.records[p].exploitation_details = e.exploitation_details

\* C35: after any Get(u) that completes by receiving a 2xx response
\* (including the unconditional retry after a 304 with no cached raw), raw
\* bytes for u are present in the cache, so that a later Get(u) hitting a
\* network error can fall back to them.
C35_RawPresentAfter2xx ==
    [][ \A p \in Procs :
          ( /\ call[p].pc # "done" /\ call'[p].pc = "done"
            /\ call'[p].resp = "200" )
          => load_raw(rawFile').found ]_vars

\* A call that got 304 with no raw content cached, asked again without the
\* condition, received the page and returned by the hash match: no raw
\* content is cached after it
RetryLeavesNoRaw ==
    /\ call[1].pc = "done" /\ call[1].resp = "200"
    /\ call[1].reqs = <<TRUE, FALSE>>
    /\ call[1].path = "hash_match"
    /\ ~load_raw(rawFile).found

\* A call that saved the page it received leaves its raw content cached
SavedCallLeavesRaw ==
    [][ \A p \in Procs :
          ( /\ call[p].pc # "done" /\ call'[p].pc = "done"
            /\ "raw" \in call'[p].wrote )
          => /\ load_raw(rawFile').found
             /\ rawFile'.body = call'[p].body ]_vars

\* The stages a run executed, in increasing order: Fetch (1) before
\* Process (2) before Emit (3)
StagesRunInOrder ==
    \A i, j \in 1..Len(stage_run.ran) : i < j => stage_run.ran[i] < stage_run.ran[j]

\* C36: within one orchestrator run, stages execute in the order Fetch,
\* Process, Emit, and the Emit stage is not executed when the Process stage
\* of the same run reported failure.
C36_EmitNotAfterFailedProcess ==
    /\ StagesRunInOrder
    /\ InSeq(3, stage_run.ran) => stage_run.result[2] # "failed"

\* A run whose Process stage failed on its first command and whose Emit
\* stage ran all the same, and succeeded
EmitRanAfterFailedProcess ==
    /\ stage_run.pc = "exited"
    /\ stage_run.ran = <<1, 2, 3>>
    /\ stage_run.result[2] = "failed"
    /\ stage_run.result[3] = "ok"
    /\ stage_run.exit = 1

\* C37: if during a run no index page is fetched and none is available in
\* the cache, the Fetch stage reports failure (and the run's exit code is
\* nonzero).
C37_NoIndexPageFailsFetch ==
    (stage_run.result[1] # "none" /\ stage_run.index_pages = {})
    => /\ stage_run.result[1] = "failed"
       /\ stage_run.pc = "exited" => stage_run.exit # 0

\* A run of the Fetch stage alone that had no index page at all, reported
\* the stage as succeeded and exited with 0
NoIndexPageRunExitsZero ==
    /\ stage_run.pc = "exited"
    /\ stage_run.ran = <<1>>
    /\ stage_run.index_pages = {}
    /\ stage_run.result[1] = "ok"
    /\ stage_run.exit = 0

\* The Fetch stage is never reported failed
FetchStageNeverFails == stage_run.result[1] # "failed"

\* The confidence levels of ExploitationConfidence, lowest first
ConfidenceRank(c) ==
    CASE c = "low" -> 1 [] c = "medium" -> 2 [] c = "high" -> 3 [] c = "confirmed" -> 4

\* C38: when several Apple-text signals match the same text, the confidence
\* of the resulting ExploitationInfo is the highest confidence among the
\* matched signals: a match of a "confirmed" signal is never lowered to
\* "high" by another signal that also matches.
C38_HighestConfidenceKept ==
    (kev_out.op = "get_exploitation_status" /\ kev_out.text.matches # {})
    => \A i \in kev_out.text.matches :
          ConfidenceRank(kev_out.info.confidence)
              >= ConfidenceRank(APPLE_PATTERNS[i].confidence)

\* The confidence of the result is the one of the last matching signal in
\* declaration order, raised to "high" at least when the CVE is in the
\* CISA catalog
ConfidenceIsTheLastMatch ==
    (kev_out.op = "get_exploitation_status" /\ kev_out.text.matches # {})
    => LET last == CHOOSE i \in kev_out.text.matches :
                       \A j \in kev_out.text.matches : j <= i
       IN  kev_out.info.confidence = APPLE_PATTERNS[last].confidence

\* A text with the targeted-attack sentence (confirmed) and the
\* supplementary-fix sentence (high) is reported with confidence "high"
ConfirmedLoweredToHigh ==
    /\ kev_out.op = "get_exploitation_status"
    /\ kev_out.text.matches = {3, 6}
    /\ kev_out.info.confidence = "high"

\* The modes of the closed set that filter
FilteringModes == {"last_n_major", "whitelist"}

\* The filtered list is the input list without the dropped releases, in the
\* input's order
OutputIsOrderedSubList ==
    feed_out.op = "postprocess" =>
        feed_out.releases = SelectSeq(feed_out.enriched, LAMBDA r : Survives(r))

\* C39: the retention filter only ever removes releases that lie outside
\* the window of a recognised policy: for any configured policy, a release
\* is dropped only if the mode is last_n_major or whitelist and the
\* release's major version is outside that mode's window; the output is
\* always an order-preserving sub-list of the input.
C39_DropsOnlyOutsideWindow ==
    feed_out.op = "postprocess" =>
        /\ \A r \in SeqToSet(feed_out.enriched) :
              ~Survives(r) => /\ feed_out.policy.mode \in FilteringModes
                              /\ ~InRetentionWindow(r, feed_out.policy)
        /\ feed_out.releases = SelectSeq(feed_out.enriched, LAMBDA r : Survives(r))

\* Under the three modes of the closed set a release is dropped only
\* outside the window of a filtering mode
RecognisedModesDropOnlyOutsideWindow ==
    (feed_out.op = "postprocess" /\ feed_out.policy.mode \in FilteringModes \cup {"all"}) =>
        \A r \in SeqToSet(feed_out.enriched) :
              ~Survives(r) => /\ feed_out.policy.mode \in FilteringModes
                              /\ ~InRetentionWindow(r, feed_out.policy)

\* A policy whose mode is none of the three empties the feed: every
\* release is dropped, pinned or not
UnrecognisedModeDropsAll ==
    /\ feed_out.op = "postprocess"
    /\ feed_out.policy.mode \notin FilteringModes \cup {"all"}
    /\ feed_out.policy.allow_pins_outside_window
    /\ \E r \in SeqToSet(feed_out.enriched) : r.is_pinned
    /\ Len(feed_out.enriched) = MaxPostReleases
    /\ feed_out.releases = << >>

====
